---- MODULE Spec2Model ----
(***************************************************************************)
(* FakeNewsSniper: the claim-verification pipeline.                        *)
(*                                                                         *)
(* The model follows one verifyClaim request from its entry point through  *)
(* EvidenceGatherer.gatherEvidence, the Wikipedia and fact-check           *)
(* short-circuits of VerificationPipeline.verifyClaim, the AI judges and   *)
(* the weighted score, up to the VerificationResult handed to the caller.  *)
(*                                                                         *)
(* Texts are TLA+ strings and the string predicates of the code            *)
(* (toLowerCase, includes, split, the regular expressions) are computed    *)
(* character by character.  Scores and confidences are integers in units   *)
(* of 1/ONE, so that the weighted mean over weights 0.5/0.2/0.3 is exact.  *)
(***************************************************************************)
EXTENDS Integers, Sequences, FiniteSets, TLC

(***************************************************************************)
(* Strings                                                                 *)
(***************************************************************************)

UpperToLower ==
  [c \in {"A","B","C","D","E","F","G","H","I","J","K","L","M",
          "N","O","P","Q","R","S","T","U","V","W","X","Y","Z"} |->
     CASE c = "A" -> "a" [] c = "B" -> "b" [] c = "C" -> "c" [] c = "D" -> "d"
       [] c = "E" -> "e" [] c = "F" -> "f" [] c = "G" -> "g" [] c = "H" -> "h"
       [] c = "I" -> "i" [] c = "J" -> "j" [] c = "K" -> "k" [] c = "L" -> "l"
       [] c = "M" -> "m" [] c = "N" -> "n" [] c = "O" -> "o" [] c = "P" -> "p"
       [] c = "Q" -> "q" [] c = "R" -> "r" [] c = "S" -> "s" [] c = "T" -> "t"
       [] c = "U" -> "u" [] c = "V" -> "v" [] c = "W" -> "w" [] c = "X" -> "x"
       [] c = "Y" -> "y" [] c = "Z" -> "z"]

LowerLetters ==
  {"a","b","c","d","e","f","g","h","i","j","k","l","m",
   "n","o","p","q","r","s","t","u","v","w","x","y","z"}

Digits == {"0","1","2","3","4","5","6","7","8","9"}

\* The characters \s matches among those the texts of the model use.
WhiteSpace == {" ", "\n", "\t"}

CharAt(s, i) == SubSeq(s, i, i)

IsUpper(c) == c \in DOMAIN UpperToLower
\* \w of a regular expression.
IsWordChar(c) == c \in LowerLetters \/ IsUpper(c) \/ c \in Digits \/ c = "_"

\* The text is halved at each step, to keep the recursion shallow.
RECURSIVE ToLowerCase(_)
ToLowerCase(s) ==
  IF Len(s) = 0 THEN ""
  ELSE IF Len(s) = 1 THEN (IF IsUpper(s) THEN UpperToLower[s] ELSE s)
  ELSE LET half == Len(s) \div 2
       IN  ToLowerCase(SubSeq(s, 1, half)) \o ToLowerCase(SubSeq(s, half + 1, Len(s)))

RECURSIVE ToUpperCase(_)
ToUpperCase(s) ==
  IF Len(s) = 0 THEN ""
  ELSE IF Len(s) = 1
  THEN (IF s \in LowerLetters
        THEN CHOOSE u \in DOMAIN UpperToLower : UpperToLower[u] = s
        ELSE s)
  ELSE LET half == Len(s) \div 2
       IN  ToUpperCase(SubSeq(s, 1, half)) \o ToUpperCase(SubSeq(s, half + 1, Len(s)))

\* s.substring starting at position i (1-based) begins with lit.
StartsAt(s, lit, i) ==
  /\ i >= 1
  /\ i + Len(lit) - 1 <= Len(s)
  /\ SubSeq(s, i, i + Len(lit) - 1) = lit

\* String.prototype.includes
Includes(s, lit) ==
  \/ Len(lit) = 0
  \/ \E i \in 1..(Len(s) - Len(lit) + 1) : StartsAt(s, lit, i)

IncludesAny(s, lits) == \E lit \in lits : Includes(s, lit)

\* The smallest member of a non-empty set of integers.
Least(S) == CHOOSE m \in S : \A n \in S : m <= n

\* The smallest member of a set of positions, 0 when the set is empty.
LeastOrZero(S) == IF S = {} THEN 0 ELSE Least(S)

Min(a, b) == IF a <= b THEN a ELSE b

\* The first position >= from where lit occurs, 0 when there is none.
IndexFrom(s, lit, from) ==
  LeastOrZero({i \in from..(Len(s) - Len(lit) + 1) : StartsAt(s, lit, i)})

\* The first position >= i that holds no white space (Len(s)+1 at the end).
RECURSIVE SkipSpace(_, _)
SkipSpace(s, i) ==
  IF i <= Len(s) /\ CharAt(s, i) \in WhiteSpace THEN SkipSpace(s, i + 1) ELSE i

\* The first position >= i that holds white space (Len(s)+1 at the end).
RECURSIVE SkipWord(_, _)
SkipWord(s, i) ==
  IF i <= Len(s) /\ CharAt(s, i) \notin WhiteSpace THEN SkipWord(s, i + 1) ELSE i

\* s.split(/\s+/): the maximal runs without white space; a text that starts
\* (ends) with white space gets an empty first (last) piece, as in JavaScript.
RECURSIVE SplitFrom(_, _)
SplitFrom(s, i) ==
  LET \* the piece from i to the white space at e, and the pieces after it
      SplitAt(e) ==
        IF e > Len(s) THEN << SubSeq(s, i, Len(s)) >>
        ELSE << SubSeq(s, i, e - 1) >> \o SplitFrom(s, SkipSpace(s, e))
  IN  SplitAt(SkipWord(s, i))

SplitWords(s) == IF Len(s) = 0 THEN << "" >> ELSE SplitFrom(s, 1)

\* new RegExp(`\\b${word}\\b`).test(s) for a word made of word characters.
HasWord(s, word) ==
  \E i \in 1..(Len(s) - Len(word) + 1) :
     /\ StartsAt(s, word, i)
     /\ (i = 1 \/ ~IsWordChar(CharAt(s, i - 1)))
     /\ (i + Len(word) > Len(s) \/ ~IsWordChar(CharAt(s, i + Len(word))))

Range(f) == {f[i] : i \in DOMAIN f}

(***************************************************************************)
(* Regular expressions.  A pattern is a sequence of atoms; an atom matches *)
(* between min and max characters of a class.  Ends(s, pat, k, i) is the   *)
(* set of positions where a match of pat[k..] that starts at i can end, so *)
(* backtracking is the union over the ends of the first atom.  Patterns    *)
(* with the i flag are written in lower case and applied to the lower-case *)
(* text.                                                                   *)
(***************************************************************************)

Unbounded == 1000000 - 1

Atom(chars, neg, min, max) == [cls |-> chars, neg |-> neg, min |-> min, max |-> max]

InClass(a, c) == IF a.neg THEN c \notin a.cls ELSE c \in a.cls

\* The literal text lit, one atom per character.
Lit(lit) == [i \in 1..Len(lit) |-> Atom({CharAt(lit, i)}, FALSE, 1, 1)]

\* \s+, \s*, \w+, \d{n}, \d{m,n}, \d+ and .* as atoms.
Space1 == << Atom(WhiteSpace, FALSE, 1, Unbounded) >>
Space0 == << Atom(WhiteSpace, FALSE, 0, Unbounded) >>
DigitsN(m, n) == << Atom(Digits, FALSE, m, n) >>
Digit1 == << Atom(Digits, FALSE, 1, Unbounded) >>
AnyStar == << Atom({"\n"}, TRUE, 0, Unbounded) >>
\* [A-Z][a-z]+ under the i flag: two letters or more.
Letters2 == << Atom(LowerLetters, FALSE, 2, Unbounded) >>
\* c+ for one character c.
Char1(c) == << Atom({c}, FALSE, 1, Unbounded) >>

\* How many characters from position i on lie in the class of atom a.
RunLength(s, a, i) ==
  LET stop == CHOOSE j \in i..(Len(s) + 1) :
                 /\ j > Len(s) \/ ~InClass(a, CharAt(s, j))
                 /\ \A k \in i..(j - 1) : InClass(a, CharAt(s, k))
  IN  stop - i

\* The positions where a match of atom a that starts at i can end; an atom
\* of at most one character looks at one character only.
AtomEnds(s, a, i) ==
  IF a.max = 1
  THEN {i + n : n \in a.min..(IF i <= Len(s) /\ InClass(a, CharAt(s, i)) THEN 1 ELSE 0)}
  ELSE {i + n : n \in a.min..Min(RunLength(s, a, i), a.max)}

RECURSIVE Ends(_, _, _, _)
Ends(s, pat, k, i) ==
  IF k > Len(pat) THEN {i}
  ELSE UNION {Ends(s, pat, k + 1, j) : j \in AtomEnds(s, pat[k], i)}

MatchesAt(s, pat, i) == Ends(s, pat, 1, i) # {}

\* RegExp.prototype.test
Test(s, pat) == \E i \in 1..(Len(s) + 1) : MatchesAt(s, pat, i)

TestAny(s, pats) == \E pat \in pats : Test(s, pat)

(***************************************************************************)
(* EvidenceGatherer: the claim predicate that picks the primary source.    *)
(***************************************************************************)

GathererIsFactualClaim(claim) ==
  LET factualIndicators ==
        {"is the", "are the", "was the", "were the",
         "is a", "are a", "was a", "were a",
         "is an", "are an", "was an", "were an",
         "current", "currently", "now", "present",
         "president", "prime minister", "leader", "mayor", "governor",
         "population", "capital", "currency", "language", "religion"}
  IN  IncludesAny(ToLowerCase(claim), factualIndicators)

(***************************************************************************)
(* VerificationPipeline: the claim predicates of verifyClaim.              *)
(***************************************************************************)

\* The values new Date().getFullYear() may have when a request runs: the
\* year of the requests and one a claim names.
Years == {"2026", "2050"}

\* currentYear is what new Date().getFullYear() returned.
isCurrentEventClaim(claim, currentYear) ==
  LET politicalPositions ==
        {"president", "prime minister", "chancellor", "premier", "mayor", "governor",
         "senator", "representative", "congressman", "congresswoman", "minister",
         "secretary", "speaker", "leader", "chair", "chairperson", "commissioner"}
      currentEventIndicators ==
        {"current", "currently", "now", "present", "recent", "recently",
         "this year", "this month", "this week", "today", "yesterday",
         "announced", "reported", "declared", "confirmed", "stated",
         "according to", "as of", "latest", "new", "update", "breaking",
         "president of the united states", "potus", "us president", "american president",
         "president of the us", "president of the u.s."}
      Body(lowerClaim) ==
        LET usPresidency ==
              /\ Includes(lowerClaim, "president")
              /\ IncludesAny(lowerClaim, {"usa", "united states", "u.s."})
              /\ IncludesAny(lowerClaim, {"current", "now", "present", "currently"})
            hasPoliticalPosition ==
              \E position \in politicalPositions :
                 /\ HasWord(lowerClaim, position)
                 /\ ~IncludesAny(lowerClaim, {"former", "ex-", "previous", "past", "was"})
            hasEventIndicators == IncludesAny(lowerClaim, currentEventIndicators)
            isTheCurrent ==
              TestAny(lowerClaim, {Lit("is current"), Lit("is the current")})
        IN  \/ usPresidency
            \/ HasWord(lowerClaim, currentYear)
            \/ hasPoliticalPosition
            \/ isTheCurrent
            \/ hasEventIndicators
  IN  Body(ToLowerCase(claim))

officeKeywords == {"president", "prime minister", "chancellor"}

isCurrentPoliticalClaim(claim) ==
  LET Body(lowerClaim) ==
        /\ IncludesAny(lowerClaim, officeKeywords)
        /\ IncludesAny(lowerClaim, {"usa", "united states", "u.s.", "uk", "united kingdom",
                                    "germany", "france", "canada", "australia"})
        /\ IncludesAny(lowerClaim, {"current", "now", "present", "is", "president of"})
  IN  Body(ToLowerCase(claim))

\* [A-Z][a-z]+(?:\s+[A-Z][a-z]+)*? with the group taken k - 1 times.
RECURSIVE NameWords(_)
NameWords(k) == IF k <= 1 THEN Letters2 ELSE NameWords(k - 1) \o Space1 \o Letters2

\* The capture of  pre (name) post  in the claim, "" when nothing matches.
\* The text returned is cut from the claim as written.
CaptureName(claim, pre, posts) ==
  LET \* <<start, k, name start, name end>> of every way to match in the
      \* lower-case text s, the name being k words
      Ways(s) ==
        UNION {{<<t[1], t[2], t[3], e>> :
                  e \in {e \in Ends(s, NameWords(t[2]), 1, t[3]) :
                           \E post \in posts : MatchesAt(s, post, e)}} :
                 t \in UNION {{<<i, k, g>> : k \in 1..Len(SplitWords(s)),
                                             g \in Ends(s, pre, 1, i)} :
                                i \in 1..Len(s)}}
      \* the match that starts leftmost, with the fewest name words (the
      \* group is lazy)
      FirstWay(ways) ==
        CHOOSE w \in ways : \A v \in ways : w[1] < v[1] \/ (w[1] = v[1] /\ w[2] <= v[2])
      Cut(w) == SubSeq(claim, w[3], w[4] - 1)
      From(ways) == IF ways = {} THEN "" ELSE Cut(FirstWay(ways))
  IN  From(Ways(ToLowerCase(claim)))

RECURSIVE Filter(_, _)
\* keep(x) is given as the set of the values to keep
Filter(seq, keep) ==
  IF seq = << >> THEN << >>
  ELSE (IF Head(seq) \in keep THEN << Head(seq) >> ELSE << >>) \o Filter(Tail(seq), keep)

RECURSIVE Join(_, _)
Join(seq, sep) ==
  IF seq = << >> THEN ""
  ELSE IF Len(seq) = 1 THEN seq[1]
  ELSE seq[1] \o sep \o Join(Tail(seq), sep)

\* a when it is a non-empty text, b otherwise.
OrElse(a, b) == IF a # "" THEN a ELSE b

extractPersonName(claim) ==
  LET IsOfficeTail == {Space1 \o Lit("is") \o Space1 \o Lit("the") \o Space1 \o Lit(o) : o \in officeKeywords}
      OfficeTail == {Space1 \o Lit("the") \o Space1 \o Lit(o) : o \in officeKeywords}
      nameStopWords ==
        {"Is", "The", "Of", "In", "And", "Or", "But", "A", "An", "President", "Prime",
         "Minister", "Chancellor", "USA", "United", "States"}
      \* /^[A-Z][a-z]+$/ (no i flag)
      IsCapitalized(word) ==
        /\ Len(word) >= 2
        /\ IsUpper(CharAt(word, 1))
        /\ \A i \in 2..Len(word) : CharAt(word, i) \in LowerLetters
      potentialNames(words) ==
        Filter(words, {w \in Range(words) : IsCapitalized(w) /\ w \notin nameStopWords})
      \* seq.slice(0, 2)
      FirstTwo(seq) == SubSeq(seq, 1, Min(Len(seq), 2))
  IN  OrElse(CaptureName(claim, Lit("is") \o Space1, OfficeTail),
             OrElse(CaptureName(claim, << >>, IsOfficeTail),
                    Join(FirstTwo(potentialNames(SplitWords(claim))), " ")))

currentPositionPatterns ==
  { Lit("current") \o AnyStar \o Lit("president"),
    Lit("president") \o AnyStar \o Lit("of") \o AnyStar \o Lit("united") \o AnyStar \o Lit("states"),
    Lit("current") \o AnyStar \o Lit("prime") \o AnyStar \o Lit("minister"),
    Lit("current") \o AnyStar \o Lit("chancellor"),
    DigitsN(4, 4) \o AnyStar \o Lit("presidential") \o AnyStar \o Lit("election") \o AnyStar \o Lit("won"),
    Lit("won") \o AnyStar \o DigitsN(4, 4) \o AnyStar \o Lit("election"),
    Lit("inaugurated") \o AnyStar \o DigitsN(4, 4),
    Lit("current") \o AnyStar \o Lit("tenure"),
    Digit1 \o Lit("th") \o AnyStar \o Lit("president") }

\* content is the lower-case reference text the caller passes.
verifyPoliticalPositionClaim(claim, content, personName) ==
  LET HasName(lowerContent) ==
        \A word \in Range(SplitWords(ToLowerCase(personName))) : Includes(lowerContent, word)
      Verdict(lowerContent, hasPersonName) ==
        LET hasCurrentPosition ==
              \E pattern \in currentPositionPatterns :
                 Test(lowerContent, pattern) /\ hasPersonName
            hasPositionMention ==
              \E position \in officeKeywords :
                 Includes(lowerContent, position) /\ hasPersonName
        IN  IF ~hasPersonName THEN FALSE ELSE hasCurrentPosition \/ hasPositionMention
      Body(lowerContent) == Verdict(lowerContent, HasName(lowerContent))
  IN  Body(ToLowerCase(content))

extractKeyTerms(claim) ==
  LET commonWords ==
        {"is", "a", "an", "the", "and", "or", "but", "in", "on", "at", "to", "for", "of",
         "with", "by"}
      Keep(terms) == Filter(terms, {t \in Range(terms) : t \notin commonWords /\ Len(t) > 2})
  IN  Keep(SplitWords(ToLowerCase(claim)))

\* s.match(/pre(TRUE|FALSE|DISPUTED)/i)?.[1].toUpperCase() on the lower-case
\* text s: the alternative that matches at the leftmost match, none when
\* there is no match.
CapturedToken(s, pre, none) ==
  LET \* content.match(/Rating:\s*(TRUE|FALSE|DISPUTED)/i)?.[1]?.toUpperCase(),
      \* "" standing for undefined.
      ratingTokens == {"true", "false", "disputed"}
      TokensAt(i) == {t \in ratingTokens : \E e \in Ends(s, pre, 1, i) : StartsAt(s, t, e)}
      From(starts) ==
        IF starts = {} THEN none
        ELSE ToUpperCase(CHOOSE t \in TokensAt(Least(starts)) : TRUE)
  IN  From({i \in 1..Len(s) : TokensAt(i) # {}})

RatingOf(content) ==
  LET \* /Rating:\s*/i, the part of the pattern before the alternatives.
      ratingPrefix == Lit("rating:") \o Space0
  IN  CapturedToken(ToLowerCase(content), ratingPrefix, "")

(***************************************************************************)
(* Numbers.  A JavaScript number between 0 and 1 is kept as an integer in  *)
(* units of 1/ONE; Dec(n, d) is the decimal literal n/d.  ONE is a         *)
(* multiple of every denominator the program divides by, so the weighted   *)
(* mean of the judges is exact.                                            *)
(***************************************************************************)

ONE == 7 * 100000

Dec(n, d) == (ONE * n) \div d

DigitValue ==
  [c \in Digits |->
     CASE c = "0" -> 0 [] c = "1" -> 1 [] c = "2" -> 2 [] c = "3" -> 3 [] c = "4" -> 4
       [] c = "5" -> 5 [] c = "6" -> 6 [] c = "7" -> 7 [] c = "8" -> 8 [] c = "9" -> 9]

\* The value of a run of digits before the decimal point, in units of 1/ONE.
RECURSIVE WholeValue(_)
WholeValue(t) ==
  IF Len(t) = 0 THEN 0
  ELSE 10 * WholeValue(SubSeq(t, 1, Len(t) - 1)) + ONE * DigitValue[CharAt(t, Len(t))]

\* The value of a run of digits after the decimal point; unit is the value
\* of a 1 in the place before the first digit.
RECURSIVE FractionValue(_, _)
FractionValue(t, unit) ==
  IF Len(t) = 0 \/ unit < 10 THEN 0
  ELSE DigitValue[CharAt(t, 1)] * (unit \div 10)
         + FractionValue(SubSeq(t, 2, Len(t)), unit \div 10)

(***************************************************************************)
(* Sources and evidence.  The metadata of a source or of an evidence item  *)
(* is the set of its flags that are true; dates, urls and ids made of the  *)
(* clock are left out.                                                     *)
(***************************************************************************)

Source(id, name, type, reliability, verificationStatus, flags) ==
  [id |-> id, name |-> name, type |-> type, reliability |-> reliability,
   verificationStatus |-> verificationStatus, metadata |-> flags]

Evidence(content, source, confidence, categories, flags) ==
  [content |-> content, source |-> source, confidence |-> confidence,
   categories |-> categories, metadata |-> flags]

Scale(score, n, d) == (score * n) \div d

baseScores ==
  [PRIMARY |-> Dec(10, 10), VERIFIED |-> Dec(9, 10), MODERATE |-> Dec(75, 100),
   ESTABLISHED |-> Dec(8, 10), CORROBORATED |-> Dec(6, 10), UNVERIFIED |-> Dec(3, 10)]

\* if (cond) score *= n/d
Times(cond, score, n, d) == IF cond THEN Scale(score, n, d) ELSE score

\* if (cond) score = Math.min(score * n/d, 0.95)
Boost(cond, score, n, d) == IF cond THEN Min(Scale(score, n, d), Dec(95, 100)) ELSE score

\* The score without the Math.min(1.0, score) of the return.
getSourceReliabilityScoreUncapped(source) ==
  Times({"isNews", "isReference"} \subseteq source.metadata,
    Times("isAcademic" \in source.metadata,
      Times("isFactChecker" \in source.metadata
              /\ IncludesAny(ToLowerCase(source.name),
                             {"snopes", "factcheck.org", "reuters fact check"}),
        Times("isFactChecker" \in source.metadata,
          Times("isGovernment" \in source.metadata,
            Times(source.verificationStatus = "UNVERIFIED",
              Times(source.verificationStatus = "VERIFIED",
                    baseScores[source.reliability], 11, 10),
              5, 10),
            12, 10),
          13, 10),
        11, 10),
      11, 10),
    115, 100)

\* The adjustments are applied innermost first, in the order of the code.
getSourceReliabilityScore(source) ==
  Min(ONE,
    Times({"isNews", "isReference"} \subseteq source.metadata,
      Times("isAcademic" \in source.metadata,
        Times("isFactChecker" \in source.metadata
                /\ IncludesAny(ToLowerCase(source.name),
                               {"snopes", "factcheck.org", "reuters fact check"}),
          Times("isFactChecker" \in source.metadata,
            Times("isGovernment" \in source.metadata,
              Times(source.verificationStatus = "UNVERIFIED",
                Times(source.verificationStatus = "VERIFIED",
                      baseScores[source.reliability], 11, 10),
                5, 10),
              12, 10),
            13, 10),
          11, 10),
        11, 10),
      115, 100))

RECURSIVE Sum(_)
Sum(seq) == IF Len(seq) = 0 THEN 0 ELSE seq[1] + Sum(Tail(seq))

IsWikipedia(e) ==
  e.source.type = "REFERENCE" /\ Includes(ToLowerCase(e.source.name), "wikipedia")

RECURSIVE sourceScores(_)
sourceScores(evidence) ==
  LET \* The score of one item in evidence.map(e => ...).
      sourceScore(e) ==
        Boost("isPrimarySource" \in e.metadata,
          Boost(IsWikipedia(e),
            Boost("isBiographical" \in e.metadata /\ e.source.type = "REFERENCE",
                  getSourceReliabilityScore(e.source), 12, 10),
            11, 10),
          11, 10)
  IN  IF Len(evidence) = 0 THEN << >>
      ELSE << sourceScore(Head(evidence)) >> \o sourceScores(Tail(evidence))

calculateReliabilityScore(evidence) ==
  LET REQUIRED_SOURCE_TYPES == <<"NEWS", "ACADEMIC", "GOVERNMENT", "REFERENCE">>
  IN  IF Len(evidence) = 0 THEN 0
      ELSE LET Average(scores) == Sum(scores) \div Len(scores)
               averageSourceScore == Average(sourceScores(evidence))
               sourceTypeDiversity == Cardinality({evidence[i].source.type : i \in DOMAIN evidence})
               diversityScore == (ONE * sourceTypeDiversity) \div Len(REQUIRED_SOURCE_TYPES)
           IN  Scale(averageSourceScore, 7, 10) + Scale(diversityScore, 3, 10)

(***************************************************************************)
(* The evidence gatherer.  A provider reply is a record: ok is FALSE when  *)
(* the call fails (network error, bad status), results is what the         *)
(* provider found.  A Wikipedia result is the top search hit with the      *)
(* extract of its article ("" when the page has none); a news result is an *)
(* article that passed the relevance filter, with its relevant section.    *)
(***************************************************************************)

WikipediaItem(claim, article, isSnopes) ==
  Evidence(article.content,
           Source(IF isSnopes THEN "snopes" ELSE "wikipedia",
                  IF isSnopes THEN "Snopes" ELSE "Wikipedia",
                  "REFERENCE", "VERIFIED", "VERIFIED",
                  {"isReference"} \cup (IF isSnopes THEN {"isFactChecker"} ELSE {})),
           Dec(9, 10), <<"reference", "encyclopedia">>, {"isDirectStatement"})

\* Whether cleanQuery of searchWikipedia is not empty: some piece of the
\* query between two spaces keeps more than two characters once those that
\* are neither \w nor \s are removed.  On an empty cleanQuery searchWikipedia
\* answers no results without a fetch.
HasCleanQuery(query) ==
  LET Kept(a, b) ==
        Cardinality({i \in a..b : IsWordChar(CharAt(query, i))
                                    \/ CharAt(query, i) \in WhiteSpace})
      EndFrom(a, space) == IF space = 0 THEN Len(query) ELSE space - 1
  IN  \E a \in 1..Len(query) :
         /\ a = 1 \/ CharAt(query, a - 1) = " "
         /\ Kept(a, EndFrom(a, IndexFrom(query, " ", a))) > 2

gatherFromWikipedia(claim, reply) ==
  IF ~HasCleanQuery(claim) \/ ~reply.ok \/ Len(reply.results) = 0 THEN << >>
  ELSE IF reply.results[1].content = "" THEN << >>
  ELSE << WikipediaItem(claim, reply.results[1], FALSE) >>

isHistoricalFigureClaim(claim) ==
  LET historicalFigures ==
        {"napoleon", "bonaparte", "emperor", "king", "queen", "president", "caesar",
         "alexander", "cleopatra"}
  IN  IncludesAny(ToLowerCase(claim), historicalFigures)

extractHistoricalFigure(claim) ==
  LET Body(lowerClaim) ==
        IF Includes(lowerClaim, "napoleon bonaparte") THEN "napoleon bonaparte"
        ELSE IF Includes(lowerClaim, "napoleon") THEN "napoleon"
        ELSE IF Includes(lowerClaim, "bonaparte") THEN "bonaparte"
        ELSE IF Includes(lowerClaim, "emperor napoleon") THEN "emperor napoleon"
        ELSE ""
  IN  Body(ToLowerCase(claim))

generateHistoricalSearchVariations(claim) ==
  LET Body(lowerClaim, figure) ==
        IF Includes(lowerClaim, "napoleon") /\ Includes(lowerClaim, "short")
        THEN <<"Napoleon Bonaparte height", "Napoleon I height", "Emperor Napoleon height",
               "Napoleon Bonaparte stature", "Napoleon height myth",
               "Napoleon Bonaparte physical appearance">>
        ELSE IF figure # ""
        THEN <<figure, figure \o " biography", figure \o " historical facts">>
        ELSE << >>
  IN  Body(ToLowerCase(claim), extractHistoricalFigure(claim))

\* Whether gatherFromReferenceSources makes a Wikipedia fetch: a
\* historical-figure claim searches once per variation, any other claim
\* once if its cleanQuery is not empty.
ReferenceSearched(claim) ==
  IF isHistoricalFigureClaim(claim)
  THEN Len(generateHistoricalSearchVariations(claim)) > 0
  ELSE HasCleanQuery(claim)

\* The reply stands for the hits of every search the method makes, the
\* irrelevant ones already removed.
gatherFromReferenceSources(claim, reply) ==
  IF ~ReferenceSearched(claim)
  THEN << >>
  ELSE IF ~reply.ok \/ Len(reply.results) = 0 THEN << >>
  ELSE IF reply.results[1].content = "" THEN << >>
  ELSE << WikipediaItem(claim, reply.results[1],
                        Includes(ToLowerCase(reply.results[1].title), "snopes")) >>

NewsItem(article) ==
  Evidence(article.content,
           Source("news-" \o article.source, article.source, "NEWS", "ESTABLISHED",
                  "VERIFIED", {"isNews"}),
           Dec(7, 10), <<"news", "media">>, {"isNews"})

\* A failed call reported as an item of evidence instead of being absorbed.
gatherFromNewsSourcesReporting(claim, reply) ==
  IF ~reply.ok THEN << NewsItem([source |-> "error", content |-> "fetch failed"]) >>
  ELSE [i \in DOMAIN reply.results |-> NewsItem(reply.results[i])]

gatherFromNewsSources(claim, reply) ==
  IF ~reply.ok THEN << >>
  ELSE [i \in DOMAIN reply.results |-> NewsItem(reply.results[i])]

\* normalizedRating.split(/[.\s]/)[0]
FirstWord(rating) ==
  LET \* the text before position at, the whole text when at is 0
      CutBefore(at) == IF at = 0 THEN rating ELSE SubSeq(rating, 1, at - 1)
  IN  CutBefore(LeastOrZero({i \in 1..Len(rating) :
                               CharAt(rating, i) \in WhiteSpace \cup {"."}}))

\* The item pushed for one result; Item takes the first word of the rating
\* in upper case and whether the publisher is Gemini.
FactCheckItem(claim, latestReview) ==
  LET geminiNote ==
        "\n\nNote: This analysis is based on Gemini AI and may not reflect the most current information. Please verify with other sources."
      Item(firstWord, isGeminiAnalysis) ==
        Evidence("Claim: " \o claim \o "\n\nFact Check: " \o latestReview.title
                     \o "\nRating: " \o firstWord \o "\nPublisher: " \o latestReview.publisher
                     \o "\nReview Date: " \o latestReview.reviewDate.text
                     \o (IF isGeminiAnalysis THEN geminiNote ELSE ""),
                   Source(ToLowerCase(latestReview.publisher), latestReview.publisher,
                          "REFERENCE",
                          IF isGeminiAnalysis THEN "MODERATE" ELSE "VERIFIED",
                          IF isGeminiAnalysis THEN "UNVERIFIED" ELSE "VERIFIED",
                          {"isCurrent"} \cup (IF isGeminiAnalysis THEN {"isAI"} ELSE {"isFactChecker"})),
                   IF isGeminiAnalysis THEN Dec(8, 10) ELSE Dec(95, 100),
                   IF isGeminiAnalysis THEN <<"fact-checking", "ai">> ELSE <<"fact-checking">>,
                   {"isDirectStatement"}
                     \cup (IF firstWord = "FALSE" THEN {"isContradictory"} ELSE {})
                     \cup (IF isGeminiAnalysis THEN {"requiresVerification"} ELSE {"isPrimarySource"}))
  IN  Item(ToUpperCase(FirstWord(ToLowerCase(latestReview.textualRating))),
           Includes(ToLowerCase(latestReview.publisher), "gemini"))

RECURSIVE FlatMapReviews(_, _)
FlatMapReviews(claim, results) ==
  LET \* result.claimReview.reduce(...): the first of the reviews with the latest
      \* review date.
      latestReviewOf(claimReview) ==
        LET top == CHOOSE d \in {claimReview[i].reviewDate.day : i \in DOMAIN claimReview} :
                      \A i \in DOMAIN claimReview : claimReview[i].reviewDate.day <= d
        IN  claimReview[Least({i \in DOMAIN claimReview : claimReview[i].reviewDate.day = top})]
  IN  IF Len(results) = 0 THEN << >>
      ELSE (IF Len(results[1].claimReview) = 0 THEN << >>
            ELSE << FactCheckItem(claim, latestReviewOf(results[1].claimReview)) >>)
           \o FlatMapReviews(claim, Tail(results))

gatherFromFactCheckSources(claim, reply) ==
  IF ~reply.ok \/ Len(reply.results) = 0 THEN << >>
  ELSE FlatMapReviews(claim, reply.results)

EvidenceResult(evidence, reliabilityScore) ==
  [evidence |-> evidence, reliabilityScore |-> reliabilityScore, totalSources |-> Len(evidence)]

(***************************************************************************)
(* The Tier-3 judges.  Each wrapper turns the reply of its API into a      *)
(* label, a score and a piece of evidence, and absorbs a failed call.      *)
(***************************************************************************)

Judgement(label, score, evidence) == [label |-> label, score |-> score, evidence |-> evidence]

ConfidenceOf(content) ==
  LET \* [0-9.]+
      ConfidenceChars == << Atom(Digits \cup {"."}, FALSE, 1, Unbounded) >>
      \* content.match(/Confidence:\s*([0-9.]+)/i)?.[1], "" standing for no match.
      \* /Confidence:\s*([0-9.]+)/i
      confidencePattern == Lit("confidence:") \o Space0 \o ConfidenceChars
      \* the run of digits and points that begins at position from
      Run(s, from) == SubSeq(s, from, from + RunLength(s, ConfidenceChars[1], from) - 1)
      From(s, starts) ==
        IF starts = {} THEN ""
        ELSE Run(s, SkipSpace(s, Least(starts) + Len("confidence:")))
      In(s) == From(s, {i \in 1..Len(s) : MatchesAt(s, confidencePattern, i)})
  IN  In(ToLowerCase(content))

RECURSIVE TrimEnd(_)
TrimEnd(s) ==
  IF Len(s) > 0 /\ CharAt(s, Len(s)) \in WhiteSpace THEN TrimEnd(SubSeq(s, 1, Len(s) - 1)) ELSE s

LabelOf(verdict) ==
  IF verdict = "TRUE" THEN "entailment"
  ELSE IF verdict = "FALSE" THEN "contradiction" ELSE "neutral"

verifyClaimWithOpenAI(reply) ==
  LET \* parseFloat of a text that begins with a digit: the digits, and the
      \* digits after the first decimal point.
      parseFloat(t) ==
        LET \* the number of digits after the decimal point that follows w digits
            FractionLength(w) ==
              IF w < Len(t) /\ CharAt(t, w + 1) = "." THEN RunLength(t, Digit1[1], w + 2) ELSE 0
            Value(w) ==
              WholeValue(SubSeq(t, 1, w))
                + FractionValue(SubSeq(t, w + 2, w + 1 + FractionLength(w)), ONE)
        IN  Value(RunLength(t, Digit1[1], 1))
      VerdictOf(content) ==
        LET \* content.match(/Verdict:\s*(TRUE|FALSE|DISPUTED)/i)?.[1].toUpperCase()
            verdictPrefix == Lit("verdict:") \o Space0
        IN  CapturedToken(ToLowerCase(content), verdictPrefix, "NEUTRAL")
      \* content.match(/Reasoning:\s*([\s\S]+)/i)?.[1].trim(), "" when absent.
      ReasoningOf(content) ==
        LET From(at) ==
              IF at = 0 THEN ""
              ELSE TrimEnd(SubSeq(content, SkipSpace(content, at + Len("reasoning:")), Len(content)))
        IN  From(IndexFrom(ToLowerCase(content), "reasoning:", 1))
      \* confidenceMatch ? parseFloat(confidenceMatch[1]) : 0.5
      Confidence(confidenceMatch) ==
        IF confidenceMatch # "" THEN parseFloat(confidenceMatch) ELSE Dec(5, 10)
  IN  IF ~reply.ok
      THEN Judgement("neutral", 0, "OpenAI verification encountered an error.")
      ELSE Judgement(LabelOf(VerdictOf(reply.content)),
                     Confidence(ConfidenceOf(reply.content)),
                     OrElse(ReasoningOf(reply.content),
                            "OpenAI provided a verdict but no detailed reasoning."))

\* The evidence text names the label; the score it also prints is left out.
verifyClaimWithNLI(reply) ==
  LET \* scores.indexOf(Math.max(...scores))
      MaxScoreIndex(scores) ==
        Least({i \in DOMAIN scores : \A j \in DOMAIN scores : scores[j] <= scores[i]})
      Best(maxScoreIndex) ==
        Judgement(reply.labels[maxScoreIndex], reply.scores[maxScoreIndex],
                  "HuggingFace NLI model classified this claim as "
                    \o reply.labels[maxScoreIndex])
  IN  IF ~reply.ok \/ Len(reply.scores) = 0
      THEN Judgement("neutral", 0, "HuggingFace NLI verification encountered an error.")
      ELSE Best(MaxScoreIndex(reply.scores))

\* The reply carries the verdict and the reasoning parsed from the text of
\* Gemini; verifyWithGemini passes the judgement of verifyClaimWithGemini on.
verifyClaimWithGemini(reply) ==
  IF ~reply.ok
  THEN Judgement("neutral", Dec(5, 10), "Gemini API error or parsing failure.")
  ELSE Judgement(LabelOf(reply.verdict),
                 IF reply.verdict = "TRUE" THEN Dec(9, 10)
                 ELSE IF reply.verdict = "FALSE" THEN Dec(1, 10) ELSE Dec(5, 10),
                 IF reply.reasoning # "" THEN reply.reasoning
                 ELSE IF reply.verdict # "NEUTRAL"
                 THEN "Gemini determined the claim to be " \o reply.verdict
                        \o " but did not provide detailed reasoning."
                 ELSE "Gemini did not provide a clear verdict or reasoning.")

(***************************************************************************)
(* The claim profile of the pipeline.  The biographical patterns are       *)
(* written in the source with doubled backslashes, so each \\s+ stands for *)
(* a backslash followed by one or more letters s, and likewise \\w+ and    *)
(* \\d{n}.                                                                 *)
(***************************************************************************)

BS == Lit("\\")

BsS1 == BS \o Char1("s")
BsS0 == BS \o << Atom({"s"}, FALSE, 0, Unbounded) >>
BsW1 == BS \o Char1("w")
BsD(m, n) == BS \o << Atom({"d"}, FALSE, m, n) >>
AnOpt == Lit("a") \o << Atom({"n"}, FALSE, 0, 1) >>

professions == {"actor", "actress", "musician", "singer", "writer", "director", "producer"}

biographicalPatterns ==
  {Lit("born") \o BsS1 \o BsW1 \o BsS1 \o BsD(1, 2) \o Lit(",") \o BsS1 \o BsD(4, 4),
   Lit("from") \o BsS1 \o BsW1,
   BsD(4, 4) \o BsS0 \o Lit("-") \o BsS0 \o Lit("present")}
    \cup {Lit("is") \o BsS1 \o AnOpt \o BsS1 \o BsW1 \o BsS1 \o Lit(p) : p \in professions}
    \cup {Lit(p) \o BsS1 \o Lit(f) :
            p \in professions, f \in {"known", "famous", "renowned", "celebrated"}}
    \cup {Lit(v) \o BsS1 \o Lit("in") : v \in {"starred", "appeared", "performed", "released"}}

isBiographicalClaim(claim) == TestAny(ToLowerCase(claim), biographicalPatterns)

isPredictiveClaim(claim) ==
  LET biographicalContexts ==
        LET nationalities ==
              {"american", "british", "canadian", "australian", "french", "german", "italian",
               "spanish", "japanese", "chinese", "indian", "russian"}
        IN  biographicalPatterns
              \cup {Lit("is") \o BsS1 \o AnOpt \o BsS1 \o Lit(n) \o BsS1 \o Lit(p) :
                      n \in nationalities, p \in professions}
      predictiveIndicators ==
        {"will", "going to", "plan to", "intend to", "expected to", "likely to", "may",
         "might", "could"}
      lowerClaim == ToLowerCase(claim)
  IN  IF isBiographicalClaim(claim) THEN FALSE
      ELSE IF \E indicator \in predictiveIndicators : HasWord(lowerClaim, indicator)
      THEN ~TestAny(lowerClaim, biographicalContexts)
      ELSE FALSE

(***************************************************************************)
(* Verification results and the tiers of VerificationPipeline.verifyClaim. *)
(***************************************************************************)

Metadata(isTemporalClaim, isFactualClaim, isPredictiveClaim_, categories, evidenceScores) ==
  [isTemporalClaim |-> isTemporalClaim, isFactualClaim |-> isFactualClaim,
   isPredictiveClaim |-> isPredictiveClaim_, categories |-> categories,
   contradictionRatio |-> 0, evidenceScores |-> evidenceScores]

\* sources is evidence.map(e => e.source) in every result and is left out.
VerificationResult(claim, status, confidence, explanation, evidence, metadata) ==
  [claim |-> claim, status |-> status, confidence |-> confidence,
   explanation |-> explanation, evidence |-> evidence, metadata |-> metadata]

\* evidence.find(...): the first item of the kind asked for, as a sequence
\* of at most one item (empty for undefined).
First(evidence, hits) == IF hits = {} THEN << >> ELSE << evidence[Least(hits)] >>

FindWikipedia(evidence) ==
  First(evidence, {i \in DOMAIN evidence : IsWikipedia(evidence[i])})

FindFactChecker(evidence) ==
  LET IsFactChecker(e) == "isFactChecker" \in e.source.metadata
  IN  First(evidence, {i \in DOMAIN evidence : IsFactChecker(evidence[i])})

\* determinedConfidence left at its default whatever the check of the
\* political position said.
determinedConfidenceDefault(political, supports) == Dec(95, 100)

\* determinedConfidence at the return of the Tier-2 branch: 0.95 unless the
\* claim is a current political claim that the content supports.
determinedConfidence(political, supports) ==
  IF political /\ supports THEN Dec(98, 100) ELSE Dec(95, 100)

\* The Tier-2 branch.  Supports is actualSupportsClaim: content is the
\* lower-case text of the Wikipedia item.
Tier2Result(claim, wikipediaItem) ==
  LET Supports(content, political) ==
        IF political
        THEN verifyPoliticalPositionClaim(claim, content, extractPersonName(claim))
        ELSE LET terms == extractKeyTerms(claim)
             IN  \A i \in DOMAIN terms : Includes(content, ToLowerCase(terms[i]))
      Verdict(supports, confidence, categories) ==
        VerificationResult(claim,
          IF supports THEN "VERIFIED" ELSE "FALSE",
          confidence,
          "This claim has been " \o (IF supports THEN "verified" ELSE "disputed")
            \o " by Wikipedia.",
          << wikipediaItem >>,
          Metadata(TRUE, TRUE, FALSE, categories, << confidence >>))
      Outcome(political, supports) ==
        Verdict(supports,
          determinedConfidence(political, supports),
          IF political THEN <<"current-events", "politics">>
          ELSE IF supports THEN <<"current-events", "general">>
          ELSE <<"current-events">>)
      Branch(political) ==
        Outcome(political, Supports(ToLowerCase(wikipediaItem.content), political))
  IN  Branch(isCurrentPoliticalClaim(claim))

\* The Tier-1 branch: rating === 'TRUE' ? VERIFIED : rating === 'FALSE' ?
\* FALSE : DISPUTED, with confidence 0.95 whatever the rating.
Tier1Result(claim, factCheckItem) ==
  LET Status(rating) ==
        IF rating = "TRUE" THEN "VERIFIED"
        ELSE IF rating = "FALSE" THEN "FALSE" ELSE "DISPUTED"
  IN  VerificationResult(claim,
        Status(RatingOf(factCheckItem.content)),
        Dec(95, 100),
        factCheckItem.content,
        << factCheckItem >>,
        Metadata(FALSE, TRUE, FALSE, <<"fact-checking">>, << >>))

\* this.weights, in tenths.
weights == [openai |-> 5, huggingface |-> 2, gemini |-> 3]

\* geminiResult is a sequence of at most one judgement (empty for null).
AiResults(openAIResult, huggingFaceResult, geminiResult) ==
  << [result |-> openAIResult, weight |-> weights.openai],
     [result |-> huggingFaceResult, weight |-> weights.huggingface] >>
    \o (IF Len(geminiResult) > 0
        THEN << [result |-> geminiResult[1], weight |-> weights.gemini] >> ELSE << >>)

RECURSIVE totalWeight(_)
totalWeight(aiResults) ==
  IF Len(aiResults) = 0 THEN 0 ELSE Head(aiResults).weight + totalWeight(Tail(aiResults))

RECURSIVE weightedSum(_)
weightedSum(aiResults) ==
  IF Len(aiResults) = 0 THEN 0
  ELSE Head(aiResults).result.score * Head(aiResults).weight + weightedSum(Tail(aiResults))

\* totalWeight > 0 ? sum / totalWeight : 0
WeightedScore(aiResults) ==
  LET Mean(sum, total) == IF total > 0 THEN sum \div total ELSE 0
  IN  Mean(weightedSum(aiResults), totalWeight(aiResults))

Tier3StatusInclusive(weightedScore) ==
  IF weightedScore >= Dec(7, 10) THEN "VERIFIED"
  ELSE IF weightedScore <= Dec(3, 10) THEN "FALSE"
  ELSE "DISPUTED"

Tier3Status(weightedScore) ==
  IF weightedScore > Dec(7, 10) THEN "VERIFIED"
  ELSE IF weightedScore < Dec(3, 10) THEN "FALSE"
  ELSE "DISPUTED"

Tier3Result(claim, gathered, aiResults, geminiResult) ==
  LET GeminiItem(geminiJudgement) ==
        Evidence(geminiJudgement.evidence,
                 Source("gemini-llm", "Gemini LLM", "REFERENCE", "VERIFIED", "VERIFIED",
                        {"isReference", "isAI", "isCurrent"}),
                 geminiJudgement.score, <<"ai", "llm", "verification">>,
                 {"isReference", "isAI", "isCurrent"})
      Verdict(weightedScore, bestEvidence) ==
        VerificationResult(claim,
          Tier3Status(weightedScore),
          weightedScore,
          OrElse(bestEvidence, claim),
          gathered.evidence
            \o (IF Len(geminiResult) > 0 /\ geminiResult[1].evidence # ""
                THEN << GeminiItem(geminiResult[1]) >> ELSE << >>),
          Metadata(FALSE, TRUE, FALSE, <<"ai-verification">>, << >>))
      \* aiResults.reduce(...): the first of the results with the highest score.
      BestResult(results) ==
        results[Least({i \in DOMAIN results :
                         \A j \in DOMAIN results :
                            results[j].result.score <= results[i].result.score})].result
  IN  Verdict(WeightedScore(aiResults), BestResult(aiResults).evidence)

\* The result of the catch block of VerificationPipeline.verifyClaim.
PipelineFallbackLoud(claim, message) ==
  VerificationResult(claim, "UNVERIFIED", Dec(5, 10), message, << >>,
                     Metadata(FALSE, FALSE, FALSE, << >>, << >>))

PipelineFallback(claim, message) ==
  VerificationResult(claim, "UNVERIFIED", 0, "Error during verification process", << >>,
                     Metadata(FALSE, FALSE, FALSE, << >>, << >>))

\* The result of the catch block of VerificationService.verifyClaim.
ServiceFallback(claim, message) ==
  VerificationResult(claim, "UNVERIFIED", 0, "An error occurred while verifying this claim.",
                     << >>, Metadata(FALSE, FALSE, FALSE, << >>, << >>))

\* MigrationLayer.createErrorResult
createErrorResult(claim) ==
  VerificationResult(claim, "UNVERIFIED", 0, "An error occurred while verifying this claim.",
                     << >>, Metadata(FALSE, FALSE, FALSE, << >>, << >>))

(***************************************************************************)
(* The POST handler of the verify route.                                   *)
(***************************************************************************)

RouteInitialResult(claim) ==
  VerificationResult(claim, "UNVERIFIED", 0, "", << >>,
                     Metadata(FALSE, TRUE, FALSE, << >>, << >>))

RouteFactCheckResult(claim, latestReview) ==
  LET Status(normalizedRating, firstWord) ==
        IF firstWord = "false" \/ IncludesAny(normalizedRating, {"incorrect", "wrong"})
        THEN "FALSE"
        ELSE IF firstWord = "true" \/ IncludesAny(normalizedRating, {"correct", "verified"})
        THEN "VERIFIED"
        ELSE "DISPUTED"
      Item(firstWord) ==
        Evidence("Claim: " \o claim \o "\n\nFact Check: " \o latestReview.title
                   \o "\nRating: " \o ToUpperCase(firstWord)
                   \o "\nPublisher: " \o latestReview.publisher
                   \o "\nReview Date: " \o latestReview.reviewDate.text
                   \o "\n\n" \o latestReview.textualRating,
                 Source(latestReview.publisher, latestReview.publisher, "REFERENCE",
                        "VERIFIED", "VERIFIED", {"isFactChecker"}),
                 Dec(95, 100), <<"fact-checking">>,
                 {"isPrimarySource", "isDirectStatement"}
                   \cup (IF firstWord = "false" THEN {"isContradictory"} ELSE {}))
      Verdict(firstWord, status) ==
        VerificationResult(claim, status,
          IF status = "DISPUTED" THEN Dec(7, 10) ELSE Dec(95, 100),
          "This claim has been fact-checked and "
            \o (IF status = "FALSE" THEN "found to be FALSE"
                ELSE IF status = "VERIFIED" THEN "verified as TRUE"
                ELSE "found to be DISPUTED")
            \o " by " \o latestReview.publisher
            \o ". According to the review: \"" \o latestReview.title \o "\"."
            \o (IF status = "DISPUTED" THEN ""
                ELSE " This is a high-confidence verification based on professional fact-checking."),
          << Item(firstWord) >>,
          Metadata(FALSE, TRUE, FALSE, << >>, << >>))
      Rated(normalizedRating, firstWord) ==
        Verdict(firstWord, Status(normalizedRating, firstWord))
      Normalized(normalizedRating) == Rated(normalizedRating, FirstWord(normalizedRating))
  IN  Normalized(ToLowerCase(latestReview.textualRating))

RouteEvidenceResult(claim, gathered) ==
  IF Len(gathered.evidence) > 0
  THEN VerificationResult(claim, "UNVERIFIED", gathered.reliabilityScore,
         "This claim has been verified using " \o ToString(gathered.totalSources) \o " source"
           \o (IF gathered.totalSources > 1 THEN "s" ELSE "") \o ".",
         gathered.evidence,
         Metadata(FALSE, TRUE, FALSE, << >>, << >>))
  ELSE RouteInitialResult(claim)

(***************************************************************************)
(* Inputs: the claims submitted and the replies of the providers.          *)
(***************************************************************************)

\* The longest list a provider returns.
MaxResults == 2

SeqsUpTo(S, n) == UNION {[1..k -> S] : k \in 0..n}

Claims ==
  {"Is Donald Trump the president of USA?",
   "The Earth will be destroyed by an asteroid in 2050",
   "Snopes reported record traffic",
   "Cats are mammals",
   "who is the current president of usa",
   ""}

Failed == [ok |-> FALSE, results |-> << >>]

WikipediaReplies ==
  LET Articles ==
        {[title |-> "Donald Trump",
          content |-> "Donald Trump is the 47th and current president of the United States."],
         [title |-> "Snopes",
          content |-> "Snopes reported record traffic, the fact-checking site said."],
         [title |-> "Draft", content |-> ""]}
  IN  {Failed} \cup {[ok |-> TRUE, results |-> r] : r \in SeqsUpTo(Articles, 1)}

Review(textualRating, publisher, day, text) ==
  [title |-> "Fact check", textualRating |-> textualRating, publisher |-> publisher,
   reviewDate |-> [day |-> day, text |-> text]]

FactCheckReplies ==
  LET FactCheckResults ==
        {[claimReview |-> << Review("True", "PolitiFact", 20000, "10/4/2024") >>],
         [claimReview |-> << Review("False", "PolitiFact", 20000, "10/4/2024") >>],
         [claimReview |-> << Review("Mixed. Needs context", "PolitiFact", 20000, "10/4/2024") >>],
         [claimReview |-> << Review("True", "Gemini AI", 20000, "10/4/2024") >>],
         [claimReview |-> << Review("True", "PolitiFact", 20000, "10/4/2024"),
                             Review("False", "Snopes", 20001, "10/5/2024") >>]}
  IN  {Failed} \cup {[ok |-> TRUE, results |-> r] : r \in SeqsUpTo(FactCheckResults, MaxResults)}

NewsReplies ==
  LET NewsArticles ==
        {[source |-> "BBC News", content |-> "Snopes reported record traffic this year."]}
  IN  {Failed} \cup {[ok |-> TRUE, results |-> r] : r \in SeqsUpTo(NewsArticles, MaxResults)}

OpenAIReplies ==
  {[ok |-> FALSE, content |-> ""]}
    \cup {[ok |-> TRUE, content |-> c] :
            c \in {"Verdict: TRUE\nConfidence: 0.9\nReasoning: Well documented.",
                   "Verdict: TRUE\nConfidence: 0.7",
                   "Verdict: FALSE\nConfidence: 0.1\nReasoning: No record of it.",
                   "The claim cannot be settled.",
                   "Verdict: TRUE\nConfidence: 95%\nReasoning: Certain."}}

nliLabels == <<"entailment", "contradiction", "neutral">>

NLIReplies ==
  {[ok |-> FALSE, labels |-> nliLabels, scores |-> << >>]}
    \cup {[ok |-> TRUE, labels |-> nliLabels, scores |-> sc] :
            sc \in {<<Dec(80, 100), Dec(15, 100), Dec(5, 100)>>,
                    <<Dec(20, 100), Dec(70, 100), Dec(10, 100)>>,
                    <<Dec(30, 100), Dec(30, 100), Dec(40, 100)>>}}

GeminiReplies ==
  {[ok |-> FALSE, verdict |-> "NEUTRAL", reasoning |-> ""],
   [ok |-> TRUE, verdict |-> "TRUE", reasoning |-> "Confirmed by public records."],
   [ok |-> TRUE, verdict |-> "FALSE", reasoning |-> ""]}

FaultMessages == {"Maximum call stack size exceeded"}

MIN_EVIDENCE_COUNT == 1

MIN_SOURCE_TYPES == 1

\* contradictions / evidence.length, and 0 for no evidence; the
\* contradictions are the items countContradictions keeps.
calculateContradictionRatio(evidence) ==
  LET countContradictions(items) ==
        Len(Filter(items, {items[i] : i \in {j \in DOMAIN items :
                                               "isContradictory" \in items[j].metadata}}))
  IN IF Len(evidence) > 0 THEN Dec(countContradictions(evidence), Len(evidence)) ELSE 0

\* contradictionRatio >= MAX_CONTRADICTION_THRESHOLD
TooContradictoryInclusive(evidence) == calculateContradictionRatio(evidence) >= Dec(2, 10)

\* contradictionRatio > this.MAX_CONTRADICTION_THRESHOLD
TooContradictory(evidence) ==
  LET MAX_CONTRADICTION_THRESHOLD == Dec(2, 10)
  IN  calculateContradictionRatio(evidence) > MAX_CONTRADICTION_THRESHOLD

\* The hasConflicts parameter is not read by the method.
determineVerificationStatus(confidence, hasConflicts, evidence) ==
  LET MIN_CONFIDENCE_THRESHOLD == Dec(6, 10)
      \* lower.match(/fact check rating:\s*(\w+)/)?.[1].toUpperCase(), "" for no match
      Rating(lower) ==
        LET WordStart(p) == SkipSpace(lower, p + Len("fact check rating:"))
            WordEnd(q) == Least({e \in q..(Len(lower) + 1) :
                                   e > Len(lower) \/ ~IsWordChar(CharAt(lower, e))})
            Word(q) == ToUpperCase(SubSeq(lower, q, WordEnd(q) - 1))
            From(starts) == IF starts = {} THEN "" ELSE Word(WordStart(Least(starts)))
        IN  From({p \in 1..Len(lower) :
                    /\ StartsAt(lower, "fact check rating:", p)
                    /\ WordStart(p) <= Len(lower)
                    /\ IsWordChar(CharAt(lower, WordStart(p)))})
      ByRating(rating) ==
        IF rating \in {"FALSE", "INCORRECT", "WRONG"} THEN "FALSE"
        ELSE IF rating \in {"DISPUTED", "MIXED", "PARTIALLY_FALSE", "PARTIALLY_CORRECT"}
        THEN "DISPUTED"
        ELSE IF rating \in {"TRUE", "CORRECT", "VERIFIED"} THEN "VERIFIED"
        ELSE ""
      hasContradictions == \E i \in DOMAIN evidence : "isContradictory" \in evidence[i].metadata
      sourceTypes == {evidence[i].source.type : i \in DOMAIN evidence}
      Rest(wikipediaEvidence) ==
        IF Len(wikipediaEvidence) > 0 /\ ~hasContradictions THEN "VERIFIED"
        ELSE IF Len(evidence) < MIN_EVIDENCE_COUNT THEN "UNVERIFIED"
        ELSE IF Cardinality(sourceTypes) < MIN_SOURCE_TYPES THEN "UNVERIFIED"
        ELSE IF TooContradictory(evidence) THEN "DISPUTED"
        ELSE IF confidence >= MIN_CONFIDENCE_THRESHOLD THEN "VERIFIED"
        ELSE "UNVERIFIED"
      Decide(factCheckEvidence, rated) ==
        IF rated # "" THEN rated
        ELSE IF Len(factCheckEvidence) > 0
                /\ "isContradictory" \in factCheckEvidence[1].metadata
        THEN "FALSE"
        ELSE Rest(FindWikipedia(evidence))
      WithFactCheck(factCheckEvidence) ==
        Decide(factCheckEvidence,
               IF Len(factCheckEvidence) > 0
               THEN ByRating(Rating(ToLowerCase(factCheckEvidence[1].content)))
               ELSE "")
  IN  WithFactCheck(FindFactChecker(evidence))

\* VerificationPipeline.analyzeClaim with isTemporalClaim, isFactualClaim and
\* extractCategories; the categories are in the order the Set received them.
analyzeClaim(claim) ==
  LET temporalIndicators ==
        {"is", "was", "will be", "going to", "current", "former", "previous", "now",
         "then", "future", "past"}
      factualIndicators ==
        {"is", "was", "has", "had", "contains", "includes", "consists of", "located in",
         "based in", "from"}
      When(cond, categories) == IF cond THEN categories ELSE << >>
      extractCategories(lowerClaim) ==
        When(isBiographicalClaim(lowerClaim), <<"biography", "person">>)
          \o When(IncludesAny(lowerClaim, {"actor", "actress"}), <<"entertainment", "film">>)
          \o When(IncludesAny(lowerClaim, {"musician", "singer"}),
                  IF IncludesAny(lowerClaim, {"actor", "actress"})
                  THEN <<"music">> ELSE <<"music", "entertainment">>)
          \o When(Includes(lowerClaim, "president"), <<"politics", "government">>)
          \o When(IncludesAny(lowerClaim, {"research", "study"}), <<"research", "academic">>)
      Analyze(lowerClaim) ==
        Metadata(IncludesAny(lowerClaim, temporalIndicators),
                 IncludesAny(lowerClaim, factualIndicators) \/ isBiographicalClaim(lowerClaim),
                 isPredictiveClaim(lowerClaim),
                 extractCategories(lowerClaim), << >>)
  IN  Analyze(ToLowerCase(claim))

\* The metrics resetMetrics assigns, which are those of the construction.
\* averageResponseTime and discrepancies are left out: endRequest computes
\* the first from the clock and the second is written by recordDiscrepancy
\* alone.
resetMetrics ==
  [totalRequests |-> 0, newArchitectureRequests |-> 0, oldArchitectureRequests |-> 0,
   errors |-> 0]

\* MigrationMonitor.startRequest; monitor is the monitor before the call.
startRequest(monitor, requestId) ==
  [metrics |-> [monitor.metrics EXCEPT !.totalRequests = @ + 1],
   startTimes |-> monitor.startTimes \cup {requestId}]

\* MigrationMonitor.endRequest; error is whether the third argument is given.
endRequest(monitor, requestId, useNewArchitecture, error) ==
  [metrics |-> [monitor.metrics EXCEPT
                  !.newArchitectureRequests = IF useNewArchitecture THEN @ + 1 ELSE @,
                  !.oldArchitectureRequests = IF useNewArchitecture THEN @ ELSE @ + 1,
                  !.errors = IF error THEN @ + 1 ELSE @],
   startTimes |-> monitor.startTimes \ {requestId}]

\* The whole part of the percentage getMigrationProgress returns.
getMigrationProgress(monitor) ==
  IF monitor.metrics.totalRequests = 0 THEN 0
  ELSE (monitor.metrics.newArchitectureRequests * 100) \div monitor.metrics.totalRequests

\* The whole part of the percentage getErrorRate returns.
getErrorRate(monitor) ==
  IF monitor.metrics.totalRequests = 0 THEN 0
  ELSE (monitor.metrics.errors * 100) \div monitor.metrics.totalRequests

\* sources.set(source.id, source)
addSource(registry, source) ==
  [id \in DOMAIN registry \cup {source.id} |->
     IF id = source.id THEN source ELSE registry[id]]

\* sources.get(sourceId): the empty sequence for undefined.
getSource(registry, sourceId) ==
  IF sourceId \in DOMAIN registry THEN << registry[sourceId] >> ELSE << >>

\* The registry the constructor leaves: sources = new Map() and six addSource calls.
initializeDefaultSources ==
  LET Put(registry, id, name, type, reliability, flags) ==
        addSource(registry, Source(id, name, type, reliability, "VERIFIED", flags))
  IN Put(Put(Put(Put(Put(Put(<< >>,
       "whitehouse-gov", "The White House", "GOVERNMENT", "PRIMARY", {"isGovernment"}),
       "snopes", "Snopes", "REFERENCE", "VERIFIED", {"isFactChecker", "isReference"}),
       "factcheck-org", "FactCheck.org", "REFERENCE", "VERIFIED",
       {"isFactChecker", "isReference"}),
       "reuters-factcheck", "Reuters Fact Check", "REFERENCE", "VERIFIED",
       {"isFactChecker", "isNews", "isReference"}),
       "reuters", "Reuters", "NEWS", "ESTABLISHED", {"isNews"}),
       "arxiv", "arXiv", "ACADEMIC", "VERIFIED", {"isAcademic"})

(***************************************************************************)
(* The state machine.  One request at a time travels from its entry point  *)
(* through the gatherer and the tiers; pc is the await the request is      *)
(* suspended at.                                                           *)
(***************************************************************************)

VARIABLES
  pc,                 \* where the request is
  entry,              \* the entry point the caller used
  claim,              \* the claim submitted
  wikipediaEvidence,  \* the local of gatherEvidence
  evidenceResult,     \* what gatherEvidence returned
  invoked,            \* the judges whose API has been called
  unanswered,         \* the judges whose call failed
  geminiResult,       \* the local of verifyClaim (empty for null)
  aiResults,          \* the local of verifyClaim
  result,             \* the VerificationResult the caller receives
  httpStatus,         \* the status of the response of the route (0 for none)
  thrown,             \* the message of the exception a catch block received
  caught,             \* the method whose catch block received it
  failed,             \* the providers whose call failed in the gatherEvidence under way
  started,            \* the providers that gatherEvidence has called
  sources,            \* SourceReliabilityManager.sources
  called,             \* the method a caller applied directly, with its arguments
  returned,           \* what that method returned
  today,              \* Date.now(), in days since the construction of the registry
  lastVerified,       \* lastVerified of each source of the registry, in the same days
  verifying,          \* per source, the verifySource executions that have not written yet
  migrationMonitor,   \* the MigrationMonitor: its metrics and the keys of its startTimes
  useVerification,    \* the state of the hook: isVerifying, result and error (<< >> for null)
  verifyClaimCalls    \* the calls of the hook's verifyClaim that passed its guard, in order

vars ==
  <<pc, entry, claim, wikipediaEvidence, evidenceResult, invoked, unanswered,
    geminiResult, aiResults, result, httpStatus, thrown, caught, failed, started,
    sources, called, returned, today, lastVerified, verifying,
    migrationMonitor, useVerification, verifyClaimCalls>>

\* What the pipeline never writes: the registry and the direct calls.
apart ==
  <<sources, called, returned, today, lastVerified, verifying, useVerification,
    verifyClaimCalls>>

Init ==
  /\ pc = "idle"
  /\ entry = "none"
  /\ claim = ""
  /\ wikipediaEvidence = << >>
  /\ evidenceResult = EvidenceResult(<< >>, 0)
  /\ invoked = {}
  /\ unanswered = {}
  /\ geminiResult = << >>
  /\ aiResults = << >>
  /\ result = VerificationResult("", "PENDING", 0, "", << >>, Metadata(FALSE, FALSE, FALSE, << >>, << >>))
  /\ httpStatus = 0
  /\ thrown = ""
  /\ caught = "none"
  /\ failed = {}
  /\ started = {}
  /\ sources = initializeDefaultSources
  /\ called = <<"none">>
  /\ returned = << >>
  /\ today = 0
  /\ lastVerified = [id \in DOMAIN initializeDefaultSources |-> 0]
  /\ verifying = [id \in DOMAIN initializeDefaultSources |-> 0]
  /\ migrationMonitor = [metrics |-> resetMetrics, startTimes |-> {}]
  /\ useVerification = [isVerifying |-> FALSE, result |-> << >>, error |-> << >>]
  /\ verifyClaimCalls = << >>

\* A caller submits a claim at one of the entry points; useNewArchitecture
\* is the flag the migration layer took from USE_NEW_ARCHITECTURE.
Submit(c, e, useNewArchitecture) ==
  /\ pc = "idle"
  /\ claim' = c
  /\ entry' = e
  /\ pc' = IF e = "POST" THEN "route"
           ELSE IF e = "MigrationLayer" /\ ~useNewArchitecture THEN "legacy"
           ELSE "wikipedia"
  /\ started' = IF e = "POST" \/ (e = "MigrationLayer" /\ ~useNewArchitecture)
                THEN {} ELSE {"wikipedia"}
  /\ migrationMonitor' = IF e = "MigrationLayer" THEN startRequest(migrationMonitor, 1)
                         ELSE migrationMonitor
  /\ UNCHANGED <<failed, apart>>
  /\ UNCHANGED <<wikipediaEvidence, evidenceResult, invoked, unanswered, geminiResult,
                 aiResults, result, httpStatus, thrown, caught>>

\* MigrationLayer.verifyClaim on the old architecture: the awaited value is
\* the claim itself, convertOldStatus reads status of a string and throws,
\* and the catch block answers with createErrorResult.
MigrationLegacy ==
  /\ pc = "legacy"
  /\ thrown' = "Cannot read properties of undefined (reading 'toUpperCase')"
  /\ caught' = "MigrationLayer"
  /\ result' = createErrorResult(claim)
  /\ migrationMonitor' = endRequest(migrationMonitor, 1, FALSE, TRUE)
  /\ pc' = "done"
  /\ UNCHANGED <<failed, started, apart>>
  /\ UNCHANGED <<entry, claim, wikipediaEvidence, evidenceResult, invoked, unanswered,
                 geminiResult, aiResults, httpStatus>>

\* POST up to its first return or to its call of gatherEvidence; parsed is
\* whether request.json() resolved.  queryGoogleFactCheck absorbs a failed
\* call and answers with an empty list.
RouteFactCheck(parsed, reply) ==
  /\ pc = "route"
  /\ IF ~parsed
     THEN /\ thrown' = "Unexpected end of JSON input"
          /\ caught' = "POST"
          /\ httpStatus' = 500
          /\ pc' = "done"
          /\ UNCHANGED <<result, started>>
     ELSE IF ~reply.ok \/ Len(reply.results) = 0
     THEN /\ pc' = "wikipedia"
          /\ started' = {"wikipedia"}
          /\ UNCHANGED <<result, httpStatus, thrown, caught>>
     ELSE /\ result' = IF Len(reply.results[1].claimReview) > 0
                       THEN RouteFactCheckResult(claim, reply.results[1].claimReview[1])
                       ELSE RouteInitialResult(claim)
          /\ httpStatus' = 200
          /\ pc' = "done"
          /\ UNCHANGED <<thrown, caught, started>>
  /\ UNCHANGED <<failed, apart>>
  /\ UNCHANGED <<migrationMonitor, entry, claim, wikipediaEvidence, evidenceResult, invoked, unanswered,
                 geminiResult, aiResults>>

\* gatherEvidence up to its first return or to its second await.
GatherWikipedia(reply) ==
  /\ pc = "wikipedia"
  /\ \E found \in {gatherFromWikipedia(claim, reply)} :
        IF GathererIsFactualClaim(claim) /\ Len(found) > 0
        THEN /\ evidenceResult' = EvidenceResult(found, Dec(9, 10))
             /\ wikipediaEvidence' = << >>
             /\ pc' = "gathered"
             /\ UNCHANGED started
        ELSE /\ wikipediaEvidence' = found
             /\ pc' = "factcheck"
             /\ started' = started \cup {"factcheck"}
             /\ UNCHANGED evidenceResult
  /\ failed' = IF reply.ok \/ ~HasCleanQuery(claim) THEN {} ELSE {"wikipedia"}
  /\ UNCHANGED apart
  /\ UNCHANGED <<migrationMonitor, entry, claim, invoked, unanswered, geminiResult, aiResults, result,
                 httpStatus, thrown, caught>>

\* A gatherEvidence whose second return adds the fact-check items to the
\* Wikipedia items it holds.
GatherFactCheckMerging(reply) ==
  /\ pc = "factcheck"
  /\ \E factCheckEvidence \in {gatherFromFactCheckSources(claim, reply)} :
        IF Len(factCheckEvidence) > 0
        THEN /\ evidenceResult' = EvidenceResult(wikipediaEvidence \o factCheckEvidence,
                                                 Dec(85, 100))
             /\ wikipediaEvidence' = << >>
             /\ pc' = "gathered"
             /\ UNCHANGED started
        ELSE /\ pc' = "others"
             /\ started' = started \cup {"news", "reference"}
             /\ UNCHANGED <<evidenceResult, wikipediaEvidence>>
  /\ failed' = IF reply.ok THEN failed ELSE failed \cup {"factcheck"}
  /\ UNCHANGED apart
  /\ UNCHANGED <<migrationMonitor, entry, claim, invoked, unanswered, geminiResult, aiResults, result,
                 httpStatus, thrown, caught>>

\* gatherEvidence from its second await to its second return or third await.
GatherFactCheck(reply) ==
  /\ pc = "factcheck"
  /\ \E factCheckEvidence \in {gatherFromFactCheckSources(claim, reply)} :
        IF Len(factCheckEvidence) > 0
        THEN /\ evidenceResult' = EvidenceResult(factCheckEvidence, Dec(85, 100))
             /\ wikipediaEvidence' = << >>
             /\ pc' = "gathered"
             /\ UNCHANGED started
        ELSE /\ pc' = "others"
             /\ started' = started \cup {"news", "reference"}
             /\ UNCHANGED <<evidenceResult, wikipediaEvidence>>
  /\ failed' = IF reply.ok THEN failed ELSE failed \cup {"factcheck"}
  /\ UNCHANGED apart
  /\ UNCHANGED <<migrationMonitor, entry, claim, invoked, unanswered, geminiResult, aiResults, result,
                 httpStatus, thrown, caught>>

\* gatherEvidence from Promise.all of the news and reference providers to
\* its last return.
GatherOthers(news, reference) ==
  /\ pc = "others"
  /\ \E allEvidence \in {wikipediaEvidence \o gatherFromNewsSources(claim, news)
                            \o gatherFromReferenceSources(claim, reference)} :
        evidenceResult' = EvidenceResult(allEvidence, calculateReliabilityScore(allEvidence))
  /\ wikipediaEvidence' = << >>
  /\ pc' = "gathered"
  /\ failed' = failed \cup (IF news.ok THEN {} ELSE {"news"})
                     \cup (IF reference.ok \/ ~ReferenceSearched(claim) THEN {}
                           ELSE {"reference"})
  /\ UNCHANGED <<started, apart>>
  /\ UNCHANGED <<migrationMonitor, entry, claim, invoked, unanswered, geminiResult, aiResults, result,
                 httpStatus, thrown, caught>>

\* POST after gatherEvidence returned.
RouteFinish ==
  /\ pc = "gathered"
  /\ entry = "POST"
  /\ result' = RouteEvidenceResult(claim, evidenceResult)
  /\ httpStatus' = 200
  /\ pc' = "done"
  /\ failed' = {}
  /\ started' = {}
  /\ UNCHANGED apart
  /\ UNCHANGED <<migrationMonitor, entry, claim, wikipediaEvidence, evidenceResult, invoked, unanswered,
                 geminiResult, aiResults, thrown, caught>>

\* The judges verifyClaim has started once the reference and fact-check
\* tiers have been tried: the two promises are created after both returns.
aiPromisesEager(decided) == {"openai", "huggingface"}

aiPromises(decided) == IF decided THEN {} ELSE {"openai", "huggingface"}

\* verifyClaim from the return of gatherEvidence to the return of Tier 2 or
\* of Tier 1, or to the start of the judges; geminiKey is whether
\* env.GEMINI_API_KEY is set.
TierCheck(geminiKey, currentYear) ==
  /\ pc = "gathered"
  /\ entry # "POST"
  /\ \E wikipediaItem \in {FindWikipedia(evidenceResult.evidence)},
        factCheckItem \in {FindFactChecker(evidenceResult.evidence)} :
        \E byReference \in {Len(wikipediaItem) > 0 /\ isCurrentEventClaim(claim, currentYear)},
           byFactCheck \in {Len(factCheckItem) > 0} :
           /\ invoked' = aiPromises(byReference \/ byFactCheck)
           /\ IF byReference
              THEN /\ result' = Tier2Result(claim, wikipediaItem[1])
                   /\ pc' = "returning"
              ELSE IF byFactCheck
              THEN /\ result' = Tier1Result(claim, factCheckItem[1])
                   /\ pc' = "returning"
              ELSE /\ pc' = IF geminiKey THEN "gemini" ELSE "judges"
                   /\ UNCHANGED result
  /\ failed' = {}
  /\ started' = {}
  /\ UNCHANGED apart
  /\ UNCHANGED <<migrationMonitor, entry, claim, wikipediaEvidence, evidenceResult, unanswered,
                 geminiResult, aiResults, httpStatus, thrown, caught>>

\* await this.verifyWithGemini(claim)
AwaitGemini(reply) ==
  /\ pc = "gemini"
  /\ geminiResult' = << verifyClaimWithGemini(reply) >>
  /\ invoked' = invoked \cup {"gemini"}
  /\ unanswered' = IF reply.ok THEN unanswered ELSE unanswered \cup {"gemini"}
  /\ pc' = "judges"
  /\ UNCHANGED <<failed, started, apart>>
  /\ UNCHANGED <<migrationMonitor, entry, claim, wikipediaEvidence, evidenceResult, aiResults, result,
                 httpStatus, thrown, caught>>

\* verifyClaim from Promise.all of the two judges to the Tier-3 return.
AwaitJudges(openAI, nli) ==
  /\ pc = "judges"
  /\ aiResults' = AiResults(verifyClaimWithOpenAI(openAI), verifyClaimWithNLI(nli), geminiResult)
  /\ unanswered' = unanswered \cup (IF openAI.ok THEN {} ELSE {"openai"})
                              \cup (IF nli.ok THEN {} ELSE {"huggingface"})
  /\ result' = Tier3Result(claim, evidenceResult, aiResults', geminiResult)
  /\ pc' = "returning"
  /\ UNCHANGED <<failed, started, apart>>
  /\ UNCHANGED <<migrationMonitor, entry, claim, wikipediaEvidence, evidenceResult, invoked, geminiResult,
                 httpStatus, thrown, caught>>

\* A statement of the try block of VerificationPipeline.verifyClaim throws
\* (a fault of the runtime, not a failed provider or judge, which their
\* wrappers absorb): the catch block answers.
PipelineFault(message) ==
  /\ pc \in {"gathered", "gemini", "judges"}
  /\ entry # "POST"
  /\ thrown' = message
  /\ caught' = "VerificationPipeline"
  /\ result' = PipelineFallback(claim, message)
  /\ pc' = "returning"
  /\ failed' = {}
  /\ started' = {}
  /\ UNCHANGED apart
  /\ UNCHANGED <<migrationMonitor, entry, claim, wikipediaEvidence, evidenceResult, invoked, unanswered,
                 geminiResult, aiResults, httpStatus>>

\* The pipeline has returned; the wrappers (verifyClaimComprehensive, the
\* service after logging, the migration layer after endRequest) pass the
\* result on unchanged.
ReturnResult ==
  /\ pc = "returning"
  /\ migrationMonitor' = IF entry = "MigrationLayer"
                         THEN endRequest(migrationMonitor, 1, TRUE, FALSE)
                         ELSE migrationMonitor
  /\ pc' = "done"
  /\ UNCHANGED <<failed, started, apart>>
  /\ UNCHANGED <<entry, claim, wikipediaEvidence, evidenceResult, invoked, unanswered,
                 geminiResult, aiResults, result, httpStatus, thrown, caught>>

\* logVerificationResult throws inside VerificationService.verifyClaim: its
\* catch block answers.
ServiceFault(message) ==
  /\ pc = "returning"
  /\ entry \in {"VerificationService", "MigrationLayer"}
  /\ thrown' = message
  /\ caught' = "VerificationService"
  /\ result' = ServiceFallback(claim, message)
  /\ migrationMonitor' = IF entry = "MigrationLayer"
                         THEN endRequest(migrationMonitor, 1, TRUE, FALSE)
                         ELSE migrationMonitor
  /\ pc' = "done"
  /\ UNCHANGED <<failed, started, apart>>
  /\ UNCHANGED <<entry, claim, wikipediaEvidence, evidenceResult, invoked, unanswered,
                 geminiResult, aiResults, httpStatus>>

\* A call of a provider or of a judge that never settles.  No fetch of the
\* program carries a timeout or an abort signal and no await is raced
\* against a timer, so the request stays suspended at that await.
NeverAnswered ==
  /\ pc \in {"route", "wikipedia", "factcheck", "others", "gemini", "judges"}
  /\ pc' = "stalled"
  /\ UNCHANGED <<migrationMonitor, entry, claim, wikipediaEvidence, evidenceResult, invoked, unanswered,
                 geminiResult, aiResults, result, httpStatus, thrown, caught>>
  /\ UNCHANGED <<failed, started, apart>>

Next ==
  \/ \E c \in Claims,
        e \in {"verifyClaimComprehensive", "VerificationService", "MigrationLayer", "POST"},
        useNewArchitecture \in BOOLEAN :
        Submit(c, e, useNewArchitecture)
  \/ MigrationLegacy
  \/ \E parsed \in BOOLEAN, reply \in FactCheckReplies : RouteFactCheck(parsed, reply)
  \/ \E reply \in WikipediaReplies : GatherWikipedia(reply)
  \/ \E reply \in FactCheckReplies : GatherFactCheck(reply)
  \/ \E news \in NewsReplies, reference \in WikipediaReplies : GatherOthers(news, reference)
  \/ RouteFinish
  \/ \E geminiKey \in BOOLEAN, currentYear \in Years : TierCheck(geminiKey, currentYear)
  \/ \E reply \in GeminiReplies : AwaitGemini(reply)
  \/ \E openAI \in OpenAIReplies, nli \in NLIReplies : AwaitJudges(openAI, nli)
  \/ \E message \in FaultMessages : PipelineFault(message)
  \/ ReturnResult
  \/ \E message \in FaultMessages : ServiceFault(message)
  \/ NeverAnswered

Spec == Init /\ [][Next]_vars

MIN_EVIDENCE_LENGTH == 20

MAX_EVIDENCE_LENGTH == 5000

\* EvidenceGatherer.validateEvidence.  Times are counted in days: time is
\* Date.now() and source.lastVerified the day of the last verification.
\* new Map(entries) gives a key the place of its first entry and the value
\* of its last one.  The test for Wikipedia stands after the other tests
\* and both of its branches return true.
validateEvidence(evidence, time) ==
  LET Same(i, j) == evidence[i].content = evidence[j].content
      IsFirst(i) == \A j \in 1..(i - 1) : ~Same(i, j)
      LastOf(i) == CHOOSE j \in DOMAIN evidence :
                      Same(i, j) /\ \A k \in (j + 1)..Len(evidence) : ~Same(i, k)
      RECURSIVE Values(_)
      Values(i) ==
        IF i > Len(evidence) THEN << >>
        ELSE (IF IsFirst(i) THEN << evidence[LastOf(i)] >> ELSE << >>) \o Values(i + 1)
      Keep(e) ==
        IF Len(e.content) < MIN_EVIDENCE_LENGTH THEN FALSE
        ELSE IF Len(e.content) > MAX_EVIDENCE_LENGTH THEN FALSE
        ELSE IF getSourceReliabilityScore(e.source) < Dec(5, 10) THEN FALSE
        ELSE IF time - e.source.lastVerified > 30 THEN FALSE
        ELSE IF IsWikipedia(e) THEN TRUE
        ELSE TRUE
      Kept(uniqueEvidence) == Filter(uniqueEvidence, {e \in Range(uniqueEvidence) : Keep(e)})
  IN  Kept(Values(1))

(***************************************************************************)
(* The methods as functions.  Besides serving requests, the registry and   *)
(* the pipeline are objects whose methods a caller (a test, another        *)
(* method) applies to arguments of its own; called and returned record one *)
(* such application.  The arguments are drawn from the typed values of the *)
(* parameters, bounded by MaxEvidence for the evidence lists.              *)
(***************************************************************************)

MaxEvidence == 5

\* Evidence of each kind the status decision tells apart: a news item, a
\* news item flagged contradictory, the Wikipedia item of the gatherer and a
\* fact-checker's item whose content carries a rating.
EvidenceItems ==
  LET news == NewsItem([source |-> "BBC News", content |-> "Cats are mammals."])
  IN  {news,
       [news EXCEPT !.metadata = @ \cup {"isContradictory"}],
       WikipediaItem("Cats are mammals",
                     [title |-> "Cat", content |-> "The cat is a small domesticated mammal."],
                     FALSE),
       Evidence("Fact check rating: Mixed",
                Source("politifact", "PolitiFact", "REFERENCE", "VERIFIED", "VERIFIED",
                       {"isFactChecker"}),
                Dec(95, 100), <<"fact-checking">>, {"isPrimarySource"})}

Call(method, arguments, value) ==
  /\ pc = "idle"
  /\ called = <<"none">>
  /\ called' = <<method>> \o arguments
  /\ returned' = value
  /\ UNCHANGED <<pc, migrationMonitor, entry, claim, wikipediaEvidence, evidenceResult, invoked, unanswered,
                 geminiResult, aiResults, result, httpStatus, thrown, caught, failed,
                 started, sources, today, lastVerified, verifying, useVerification,
                 verifyClaimCalls>>

GetSourceReliabilityScore(source) ==
  Call("getSourceReliabilityScore", <<source>>, getSourceReliabilityScore(source))

DetermineVerificationStatus(confidence, hasConflicts, evidence) ==
  Call("determineVerificationStatus", <<confidence, hasConflicts, evidence>>,
       determineVerificationStatus(confidence, hasConflicts, evidence))

AnalyzeClaim(c) == Call("analyzeClaim", <<c>>, analyzeClaim(c))

\* Claims about a career with a word of the future in them: two as a person
\* writes them, and one with the backslash and the letter s that the
\* patterns of isBiographicalClaim ask for after "starred".
Biographies ==
  {"Tom Hanks starred in Big and will retire",
   "Tom Hanks, born July 9, 1956, may direct a film",
   "Tom Hanks starred\\sin Big and will retire"}

MaxValidated == 3

\* Evidence for validateEvidence, each item with the day its source was
\* last verified: a news item; a Wikipedia item of the same content; a
\* Wikipedia item of 10 characters; a Wikipedia item verified a day earlier
\* than the others; a Wikipedia item of 5120 characters; an item of a source
\* that scores 0.15.
ValidationItems ==
  LET RECURSIVE Twice(_, _)
      Twice(s, n) == IF n = 0 THEN s ELSE Twice(s \o s, n - 1)
      Item(content, name, type, reliability, day) ==
        Evidence(content,
                 [id |-> ToLowerCase(name), name |-> name, type |-> type,
                  reliability |-> reliability, verificationStatus |-> reliability,
                  metadata |-> {}, lastVerified |-> day],
                 Dec(8, 10), << >>, {})
  IN  {Item("Cats are mammals and like milk.", "BBC News", "NEWS", "VERIFIED", 1),
       Item("Cats are mammals and like milk.", "Wikipedia", "REFERENCE", "VERIFIED", 1),
       Item("Cats purr.", "Wikipedia", "REFERENCE", "VERIFIED", 1),
       Item("The cat is a small domesticated mammal.", "Wikipedia", "REFERENCE", "VERIFIED", 0),
       Item(Twice("Cats purr.", 9), "Wikipedia", "REFERENCE", "VERIFIED", 1),
       Item("Cats are reptiles, a blog says.", "A Blog", "OTHER", "UNVERIFIED", 1)}

ValidateEvidence(evidence, time) ==
  Call("validateEvidence", <<evidence, time>>, validateEvidence(evidence, time))

\* One application per behaviour; the guard comes before the arguments so
\* that they are drawn only where an application can begin.
UnitNext ==
  /\ called = <<"none">>
  /\ \/ \E name \in {"Snopes", "The Herald"}, reliability \in DOMAIN baseScores,
           verificationStatus \in {"VERIFIED", "UNVERIFIED", "PENDING"},
           flags \in SUBSET {"isGovernment", "isFactChecker", "isAcademic", "isNews",
                             "isReference"} :
           GetSourceReliabilityScore(
             Source("source", name, "OTHER", reliability, verificationStatus, flags))
     \/ \E confidence \in {Dec(59, 100), Dec(6, 10)}, hasConflicts \in BOOLEAN,
           evidence \in SeqsUpTo(EvidenceItems, MaxEvidence) :
           DetermineVerificationStatus(confidence, hasConflicts, evidence)
     \/ \E c \in Claims \cup Biographies : AnalyzeClaim(c)
     \/ \E evidence \in SeqsUpTo(ValidationItems, MaxValidated), time \in {30, 31} :
           ValidateEvidence(evidence, time)

UnitSpec == Init /\ [][UnitNext]_vars

(***************************************************************************)
(* The re-verification of the registry.  SourceReliabilityManager          *)
(* .verifySource awaits three checks of the source's URL and then writes   *)
(* lastVerified and verificationStatus; between its call and that write    *)
(* other calls run.  checkSSL answers from the URL alone, and the URL of   *)
(* each default source begins with https.                                  *)
(***************************************************************************)

\* 24 hours, in days.
VERIFICATION_INTERVAL == 1

MaxInFlight == 6

\* The verifySource executions that have not written yet, of all sources.
InFlight ==
  LET RECURSIVE Total(_)
      Total(ids) == IF ids = {} THEN 0
                    ELSE LET id == CHOOSE i \in ids : TRUE
                         IN  verifying[id] + Total(ids \ {id})
  IN  Total(DOMAIN verifying)

\* VerificationService.verifySource(sourceId) up to the await inside
\* SourceReliabilityManager.verifySource; an unknown id returns false at once.
VerifySource(sourceId) ==
  /\ pc = "idle"
  /\ getSource(sources, sourceId) # << >>
  /\ InFlight < MaxInFlight
  /\ verifying' = [verifying EXCEPT ![sourceId] = @ + 1]
  /\ UNCHANGED <<pc, migrationMonitor, entry, claim, wikipediaEvidence, evidenceResult, invoked, unanswered,
                 geminiResult, aiResults, result, httpStatus, thrown, caught, failed,
                 started, sources, called, returned, today, lastVerified,
                 useVerification, verifyClaimCalls>>

\* verifyAllSources up to its await: verifySource has been called for each
\* source whose last verification is older than the interval.
VerifyAllSources ==
  LET \* The sources verifyAllSources passes to verifySource.
      dueSources == {id \in DOMAIN sources : today - lastVerified[id] > VERIFICATION_INTERVAL}
  IN  /\ pc = "idle"
      /\ dueSources # {}
      /\ InFlight + Cardinality(dueSources) <= MaxInFlight
      /\ verifying' = [id \in DOMAIN verifying |->
                         verifying[id] + (IF id \in dueSources THEN 1 ELSE 0)]
      /\ UNCHANGED <<pc, migrationMonitor, entry, claim, wikipediaEvidence, evidenceResult, invoked, unanswered,
                     geminiResult, aiResults, result, httpStatus, thrown, caught, failed,
                     started, sources, called, returned, today, lastVerified,
                     useVerification, verifyClaimCalls>>

\* verifySource after Promise.all of the three checks: the write-back.
VerifySourceWrite(sourceId, accessibility, content, ssl) ==
  /\ verifying[sourceId] > 0
  /\ lastVerified' = [lastVerified EXCEPT ![sourceId] = today]
  /\ sources' = [sources EXCEPT ![sourceId].verificationStatus =
                    IF accessibility /\ content /\ ssl THEN "VERIFIED" ELSE "UNVERIFIED"]
  /\ verifying' = [verifying EXCEPT ![sourceId] = @ - 1]
  /\ UNCHANGED <<pc, migrationMonitor, entry, claim, wikipediaEvidence, evidenceResult, invoked, unanswered,
                 geminiResult, aiResults, result, httpStatus, thrown, caught, failed,
                 started, called, returned, today, useVerification,
                 verifyClaimCalls>>

\* A day passes.  The clock is followed up to the first day on which the
\* sources the constructor registered are due.
Tick ==
  /\ today <= VERIFICATION_INTERVAL
  /\ today' = today + 1
  /\ UNCHANGED <<pc, migrationMonitor, entry, claim, wikipediaEvidence, evidenceResult, invoked, unanswered,
                 geminiResult, aiResults, result, httpStatus, thrown, caught, failed,
                 started, sources, called, returned, lastVerified, verifying,
                 useVerification, verifyClaimCalls>>

RegistryNext ==
  \/ \E sourceId \in {"snopes", "wikipedia"} : VerifySource(sourceId)
  \/ VerifyAllSources
  \/ \E sourceId \in DOMAIN sources, accessibility \in BOOLEAN, content \in BOOLEAN :
        VerifySourceWrite(sourceId, accessibility, content, TRUE)
  \/ Tick

RegistrySpec == Init /\ [][RegistryNext]_vars

(***************************************************************************)
(* The migration monitor under several requests.  MigrationLayer           *)
(* .verifyClaim calls startRequest with a fresh id, awaits the             *)
(* verification and calls endRequest with that id; requests overlap at the *)
(* await, and resetMetrics is a public method of the monitor.              *)
(***************************************************************************)

MaxRequests == 2

MaxTotalRequests == 3

Monitor(monitor) ==
  /\ pc = "idle"
  /\ migrationMonitor' = monitor
  /\ UNCHANGED <<pc, entry, claim, wikipediaEvidence, evidenceResult, invoked, unanswered,
                 geminiResult, aiResults, result, httpStatus, thrown, caught, failed,
                 started, sources, called, returned, today, lastVerified, verifying,
                 useVerification, verifyClaimCalls>>

\* requestId is the value of uuidv4(), which no request under way has.
StartRequest(requestId) ==
  /\ requestId \notin migrationMonitor.startTimes
  /\ migrationMonitor.metrics.totalRequests < MaxTotalRequests
  /\ Monitor(startRequest(migrationMonitor, requestId))

\* The layer ends a request it has started, with its flag and with the
\* error it caught, if any.
EndRequest(requestId, useNewArchitecture, error) ==
  /\ requestId \in migrationMonitor.startTimes
  /\ Monitor(endRequest(migrationMonitor, requestId, useNewArchitecture, error))

ResetMetrics ==
  /\ migrationMonitor.metrics # resetMetrics
  /\ Monitor([migrationMonitor EXCEPT !.metrics = resetMetrics])

MonitorNext ==
  \/ \E requestId \in 1..MaxRequests : StartRequest(requestId)
  \/ \E requestId \in 1..MaxRequests, useNewArchitecture \in BOOLEAN, error \in BOOLEAN :
        EndRequest(requestId, useNewArchitecture, error)
  \/ ResetMetrics

MonitorSpec == Init /\ [][MonitorNext]_vars

(***************************************************************************)
(* The useVerification hook.  Its verifyClaim sets the state, awaits       *)
(* verifyClaimComprehensive and sets the state again; a component may call *)
(* it again before an earlier call has settled.  The promise awaited does  *)
(* not reject: the catch block of VerificationPipeline.verifyClaim answers *)
(* every fault with a result.                                              *)
(***************************************************************************)

MaxCalls == 3

Hook(state, calls) ==
  /\ pc = "idle"
  /\ useVerification' = state
  /\ verifyClaimCalls' = calls
  /\ UNCHANGED <<pc, migrationMonitor, entry, claim, wikipediaEvidence, evidenceResult,
                 invoked, unanswered, geminiResult, aiResults, result, httpStatus, thrown,
                 caught, failed, started, sources, called, returned, today, lastVerified,
                 verifying>>

\* verifyClaim of the hook up to its await; a claim that trims to nothing
\* returns before any setter.
HookVerifyClaim(c) ==
  /\ Len(verifyClaimCalls) < MaxCalls
  /\ \E i \in 1..Len(c) : CharAt(c, i) \notin WhiteSpace
  /\ Hook([isVerifying |-> TRUE, result |-> << >>, error |-> << >>],
          Append(verifyClaimCalls, [claim |-> c, settled |-> << >>]))

\* verifyClaim of the hook from its await on: call i resolves with
\* verificationResult, setResult and the finally block run.
HookSettle(i, verificationResult) ==
  /\ verifyClaimCalls[i].settled = << >>
  /\ Hook([useVerification EXCEPT !.result = << verificationResult >>,
                                  !.isVerifying = FALSE],
          [verifyClaimCalls EXCEPT ![i].settled = << verificationResult >>])

HookNext ==
  \/ \E c \in {"Cats are mammals", "Snopes reported record traffic", " "} :
        HookVerifyClaim(c)
  \/ \E i \in DOMAIN verifyClaimCalls, status \in {"VERIFIED", "FALSE"} :
        HookSettle(i, VerificationResult(verifyClaimCalls[i].claim, status, Dec(95, 100), "",
                                         << >>, Metadata(FALSE, TRUE, FALSE, << >>, << >>)))

HookSpec == Init /\ [][HookNext]_vars

(***************************************************************************)
(* Properties.  A request that VerificationPipeline.verifyClaim has        *)
(* answered is at pc = "returning"; the tier that decided is read off the  *)
(* categories of the result, which the three returns set differently.      *)
(***************************************************************************)

ByTier1 == result.metadata.categories = <<"fact-checking">>

ByTier2 == result.metadata.isTemporalClaim

ByTier3 == result.metadata.categories = <<"ai-verification">>

Unverified0 == result.status = "UNVERIFIED" /\ result.confidence = 0

\* C1: when every evidence provider has returned an empty list, the result
\* of verifyClaim is Unverified with confidence 0, whatever the judges said.
C1_NoEvidenceUnverified ==
  (pc = "returning" /\ evidenceResult.totalSources = 0) => Unverified0

\* C2: a predictive claim is answered Unverified with confidence 0 whatever
\* evidence was gathered.
C2_PredictiveUnverified ==
  (pc = "returning" /\ isPredictiveClaim(claim)) => Unverified0

\* C3: the fact-check tier comes before the reference tier: with a
\* fact-checker item and a Wikipedia item in the evidence of a claim that is
\* a current-event claim in every year the verdict is that of the fact-checker item, and a reference
\* verdict is returned only when the evidence has no fact-checker item.
C3_FactCheckBeforeReference ==
  (pc = "returning" /\ caught = "none") =>
     LET factCheckItem == FindFactChecker(evidenceResult.evidence)
         wikipediaItem == FindWikipedia(evidenceResult.evidence)
     IN  /\ (Len(factCheckItem) > 0 /\ Len(wikipediaItem) > 0
             /\ \A currentYear \in Years : isCurrentEventClaim(claim, currentYear))
              => result = Tier1Result(claim, factCheckItem[1])
         /\ ByTier2 => Len(factCheckItem) = 0

\* C4: a verdict of the fact-check tier follows the rating token of the
\* item: TRUE gives Verified at 0.95, FALSE gives False at 0.95, anything
\* else gives Disputed at 0.7.
C4_Tier1Mapping ==
  (pc = "returning" /\ ByTier1) =>
     LET token == RatingOf(result.evidence[1].content)
     IN  IF token = "TRUE"
         THEN result.status = "VERIFIED" /\ result.confidence = Dec(95, 100)
         ELSE IF token = "FALSE"
         THEN result.status = "FALSE" /\ result.confidence = Dec(95, 100)
         ELSE result.status = "DISPUTED" /\ result.confidence = Dec(7, 10)

C7_FallbackCarriesMessage ==
  caught \in {"VerificationPipeline", "VerificationService"} =>
     /\ "error" \in DOMAIN result.metadata
     /\ result.metadata.error = thrown

\* C8: the confidence of a result returned at any entry point lies between
\* 0 and 1.
C8_ConfidenceInUnitInterval ==
  (pc \in {"returning", "done"} /\ httpStatus # 500) =>
     (0 <= result.confidence /\ result.confidence <= ONE)

\* The judges of aiResults in the order verifyClaim lists them, and the
\* entries of those whose call did not fail.
judgeNames == <<"openai", "huggingface", "gemini">>

answeredResults ==
  Filter(aiResults, {aiResults[i] : i \in {j \in DOMAIN aiResults : judgeNames[j] \notin unanswered}})

\* C9: the confidence of a verdict of the judges is the weighted mean over
\* the judges whose call did not fail, the weights of the others removed.
C9_FailedJudgesExcluded ==
  (pc = "returning" /\ ByTier3 /\ Len(answeredResults) > 0) =>
     result.confidence = WeightedScore(answeredResults)

\* C10: a verdict of the judges is Verified exactly when the weighted score
\* is above 0.7, False exactly when it is below 0.3 and Disputed otherwise,
\* and its confidence is the weighted score.
C10_Tier3StatusFromScore ==
  (pc = "returning" /\ ByTier3) =>
     /\ result.confidence = WeightedScore(aiResults)
     /\ result.status = "VERIFIED" <=> result.confidence > Dec(7, 10)
     /\ result.status = "FALSE" <=> result.confidence < Dec(3, 10)
     /\ result.status = "DISPUTED" <=>
          (Dec(3, 10) <= result.confidence /\ result.confidence <= Dec(7, 10))

C10_ScoreOnThreshold ==
  /\ pc = "returning"
  /\ ByTier3
  /\ result.confidence = Dec(7, 10)
  /\ result.status = "DISPUTED"

\* C11: a provider whose call fails counts as a provider that found nothing.
\* The step that absorbs the failure leaves the request where an empty
\* answer would (no catch block of the pipeline runs, nothing gathered so
\* far is dropped), and the evidence gatherEvidence returns is exactly what
\* the providers that answered supplied, in the order of the code.
C11_FailedProviderCountsAsEmpty ==
  [][/\ (pc = "wikipedia" /\ "wikipedia" \in failed')
          => /\ pc' = "factcheck"
             /\ wikipediaEvidence' = << >>
             /\ evidenceResult' = evidenceResult
             /\ caught' = "none"
     /\ (pc = "factcheck" /\ "factcheck" \in failed')
          => /\ pc' = "others"
             /\ wikipediaEvidence' = wikipediaEvidence
             /\ evidenceResult' = evidenceResult
             /\ caught' = "none"
     /\ (pc = "others" /\ pc' = "gathered")
          => /\ caught' = "none"
             /\ \E news \in NewsReplies, reference \in WikipediaReplies :
                   /\ ("news" \in failed') = ~news.ok
                   /\ ("reference" \in failed') = (~reference.ok /\ ReferenceSearched(claim))
                   /\ evidenceResult'.evidence =
                        wikipediaEvidence
                          \o (IF news.ok THEN gatherFromNewsSources(claim, news) ELSE << >>)
                          \o (IF reference.ok
                              THEN gatherFromReferenceSources(claim, reference)
                              ELSE << >>)]_vars

\* gatherEvidence has returned the reference item it found although the
\* fact-check and the news provider both failed.
C11_EvidenceDespiteFailures ==
  /\ pc = "gathered"
  /\ {"factcheck", "news"} \subseteq failed
  /\ Len(evidenceResult.evidence) > 0
  /\ caught = "none"

\* C12: every request returns, even when one provider or one judge never
\* answers, because each call is cut off by a timeout of its own.  A request
\* suspended on a call that never settles is at pc = "stalled" and has no
\* further step, so a request that always returns never gets there.
C12_NoRequestWaitsForever == pc # "stalled"

\* C13: once gatherEvidence has returned, the source of every item it
\* returned is in the registry: getSource of its id is defined.
C13_EverySourceRegistered ==
  pc = "gathered"
    => \A i \in DOMAIN evidenceResult.evidence :
          getSource(sources, evidenceResult.evidence[i].source.id) # << >>

\* C14: the contradictionRatio in the metadata of a result is the number of
\* its evidence items flagged contradictory over the number of its evidence
\* items, and 0 when it has none.
C14_RatioCountsContradictions ==
  (pc = "returning" /\ caught = "none")
    => result.metadata.contradictionRatio = calculateContradictionRatio(result.evidence)

\* C15: getSourceReliabilityScore returns a score between 0 and 1 for every
\* Source, and of two Sources that differ only in isGovernment the one that
\* has it scores at least as high as the one that has not.
C15_ScoreBoundedAndGovernmentMonotone ==
  called[1] = "getSourceReliabilityScore"
    => /\ 0 <= returned
       /\ returned <= ONE
       /\ "isGovernment" \in called[2].metadata
            => returned >= getSourceReliabilityScore(
                             [called[2] EXCEPT !.metadata = @ \ {"isGovernment"}])

\* A government source whose adjustments pass 1.0 and are capped, although
\* the same source without isGovernment scores below 1.0.
C15_GovernmentSourceCapped ==
  /\ called[1] = "getSourceReliabilityScore"
  /\ "isGovernment" \in called[2].metadata
  /\ returned = ONE
  /\ getSourceReliabilityScore([called[2] EXCEPT !.metadata = @ \ {"isGovernment"}]) < ONE

\* C16: the status and the confidence of a result are determined by the
\* claim, the registry and what the providers and the judges answered.  So
\* if the evidence gathered decides the request in some year of the clock
\* (no judge is asked then), the result returned has that status and that
\* confidence in every year.
C16_VerdictIndependentOfClock ==
  (pc = "returning" /\ caught = "none")
    => LET Early(wikipediaItem, factCheckItem, currentYear) ==
             IF Len(wikipediaItem) > 0 /\ isCurrentEventClaim(claim, currentYear)
             THEN << Tier2Result(claim, wikipediaItem[1]) >>
             ELSE IF Len(factCheckItem) > 0
             THEN << Tier1Result(claim, factCheckItem[1]) >>
             ELSE << >>
           Same(early) ==
             Len(early) > 0 => /\ result.status = early[1].status
                               /\ result.confidence = early[1].confidence
       IN  \A currentYear \in Years :
              Same(Early(FindWikipedia(evidenceResult.evidence),
                         FindFactChecker(evidenceResult.evidence), currentYear))

\* C17: the contradiction threshold is strict.  Without a fact-checker item
\* (whose rating may say Disputed by itself) determineVerificationStatus
\* answers Disputed only for a contradictionRatio above 0.2, so one
\* contradictory item of five does not give Disputed.
C17_DisputedOnlyAboveThreshold ==
  called[1] = "determineVerificationStatus"
    => ((returned = "DISPUTED" /\ Len(FindFactChecker(called[4])) = 0)
          => calculateContradictionRatio(called[4]) > Dec(2, 10))

\* Five items, one of them contradictory, at confidence 0.6: Verified.
C17_OneOfFiveVerified ==
  /\ called[1] = "determineVerificationStatus"
  /\ Len(called[4]) = 5
  /\ Len(FindFactChecker(called[4])) = 0
  /\ calculateContradictionRatio(called[4]) = Dec(2, 10)
  /\ called[2] = Dec(6, 10)
  /\ returned = "VERIFIED"

\* C18: without a fact-checker item determineVerificationStatus answers
\* Verified only for a contradictionRatio of at most 0.2 and a confidence of
\* at least 0.6, and below 0.6 it answers Disputed or Unverified.
C18_VerifiedNeedsConfidence ==
  (called[1] = "determineVerificationStatus" /\ Len(FindFactChecker(called[4])) = 0)
    => /\ returned = "VERIFIED"
            => /\ calculateContradictionRatio(called[4]) <= Dec(2, 10)
               /\ called[2] >= Dec(6, 10)
       /\ called[2] < Dec(6, 10) => returned \in {"DISPUTED", "UNVERIFIED"}

C20_EmptyClaimUnverified ==
  /\ (called[1] = "analyzeClaim" /\ called[2] = "")
        => returned = Metadata(FALSE, FALSE, FALSE, << >>, << >>)
  /\ (pc \in {"returning", "done"} /\ claim = "" /\ entry # "POST" /\ caught = "none")
        => /\ result.claim = ""
           /\ result.status = "UNVERIFIED"
           /\ 0 <= result.confidence /\ result.confidence <= ONE

\* C21: the evidence providers of a request are invoked concurrently: while
\* gatherEvidence awaits the result of one provider, every other provider
\* has been started already.
C21_ProvidersStartedTogether ==
  pc \in {"wikipedia", "factcheck", "others"}
    => started = {"wikipedia", "factcheck", "news", "reference"}

\* C22: of several evidence items with exactly the same content,
\* validateEvidence keeps the one that comes first in its input, with the
\* source, confidence and flags of that item.
C22_FirstOccurrenceSurvives ==
  called[1] = "validateEvidence"
    => \A k \in DOMAIN returned :
          returned[k] = called[2][Least({i \in DOMAIN called[2] :
                                           called[2][i].content = returned[k].content})]

\* C23: validateEvidence drops an item of a Reference source named Wikipedia
\* only as a duplicate or for a source reliability below 0.5, never for the
\* length of its content or the age of the verification of its source.
C23_WikipediaExemptFromLengthAndAge ==
  called[1] = "validateEvidence"
    => \A i \in DOMAIN called[2] :
          (IsWikipedia(called[2][i])
             /\ getSourceReliabilityScore(called[2][i].source) >= Dec(5, 10))
            => \E k \in DOMAIN returned : returned[k].content = called[2][i].content

\* C24: the write-backs of the re-verification are serialized per source:
\* of each source at most one verifySource execution is between its start
\* and its write of lastVerified and verificationStatus.
C24_OneVerificationPerSource ==
  \A id \in DOMAIN verifying : verifying[id] <= 1

\* C25: a claim that matches a biographical pattern is never classified as
\* predictive, whatever words of the future it holds; here the patterns of
\* the career ("starred in", "appeared in") and of the birth date
\* ("born July 9, 1956").
C25_BiographyNeverPredictive ==
  LET word == << Atom(LowerLetters \cup Digits \cup {"_"}, FALSE, 1, Unbounded) >>
      patterns ==
        {Lit(v) \o Space1 \o Lit("in") : v \in {"starred", "appeared"}}
          \cup {Lit("born") \o Space1 \o word \o Space1 \o DigitsN(1, 2) \o Lit(",")
                  \o Space1 \o DigitsN(4, 4)}
  IN  (called[1] = "analyzeClaim" /\ TestAny(ToLowerCase(called[2]), patterns))
        => ~returned.isPredictiveClaim

\* C26: gatherEvidence returns the first primary source that has items,
\* alone.  It returns from its first await only for a claim it classifies
\* as factual, with Wikipedia items only, the score 0.9 and no other
\* provider called, and it goes on only without such items; it returns
\* from its second await with fact-check items only, the score 0.85 and
\* the news and reference providers not called; the last return holds no
\* fact-check item.
C26_FirstPrimarySourceAlone ==
  [][LET evidence == evidenceResult'.evidence
     IN  /\ (pc = "wikipedia" /\ pc' = "gathered")
               => /\ GathererIsFactualClaim(claim)
                  /\ Len(evidence) > 0
                  /\ \A i \in DOMAIN evidence : evidence[i].source.id = "wikipedia"
                  /\ evidenceResult'.reliabilityScore = Dec(9, 10)
                  /\ started' = {"wikipedia"}
         /\ (pc = "wikipedia" /\ pc' = "factcheck")
               => /\ ~(GathererIsFactualClaim(claim) /\ Len(wikipediaEvidence') > 0)
                  /\ started' = {"wikipedia", "factcheck"}
         /\ (pc = "factcheck" /\ pc' = "gathered")
               => /\ Len(evidence) > 0
                  /\ \A i \in DOMAIN evidence : evidence[i].categories[1] = "fact-checking"
                  /\ evidenceResult'.reliabilityScore = Dec(85, 100)
                  /\ started' = {"wikipedia", "factcheck"}
         /\ (pc = "others" /\ pc' = "gathered")
               => \A i \in DOMAIN evidence : "fact-checking" \notin Range(evidence[i].categories)
    ]_vars

\* A factual claim answered from Wikipedia alone.
C26_WikipediaAlone ==
  /\ pc = "gathered"
  /\ GathererIsFactualClaim(claim)
  /\ started = {"wikipedia"}
  /\ Len(evidenceResult.evidence) > 0
  /\ evidenceResult.reliabilityScore = Dec(9, 10)

\* C27: a verdict VERIFIED of the political branch of the reference tier
\* implies that extractPersonName found a name in the claim and that every
\* word of that name occurs in the reference text.
C27_VerifiedOfficeHolderNamed ==
  (/\ pc \in {"returning", "done"}
   /\ caught = "none"
   /\ ByTier2
   /\ result.metadata.categories = <<"current-events", "politics">>
   /\ result.status = "VERIFIED")
    => /\ extractPersonName(claim) # ""
       /\ \A word \in Range(SplitWords(ToLowerCase(extractPersonName(claim)))) :
             Includes(ToLowerCase(result.evidence[1].content), word)

\* C28: whatever the order of the calls of startRequest, endRequest and
\* resetMetrics, the requests counted per architecture and the errors do
\* not exceed the requests counted in total, and getMigrationProgress and
\* getErrorRate return a value from 0 to 100.
C28_MetricsWithinTotal ==
  /\ migrationMonitor.metrics.newArchitectureRequests
        + migrationMonitor.metrics.oldArchitectureRequests
       <= migrationMonitor.metrics.totalRequests
  /\ migrationMonitor.metrics.errors <= migrationMonitor.metrics.totalRequests
  /\ getMigrationProgress(migrationMonitor) \in 0..100
  /\ getErrorRate(migrationMonitor) \in 0..100

\* C29: isVerifying is true as long as a call of the hook's verifyClaim has
\* not settled.
C29_VerifyingWhileInFlight ==
  (\E i \in DOMAIN verifyClaimCalls : verifyClaimCalls[i].settled = << >>)
    => useVerification.isVerifying

\* C30: once every call has settled, the result of the hook is the outcome
\* of the call made last.
C30_LatestClaimWins ==
  (/\ verifyClaimCalls # << >>
   /\ \A i \in DOMAIN verifyClaimCalls : verifyClaimCalls[i].settled # << >>)
    => useVerification.result = verifyClaimCalls[Len(verifyClaimCalls)].settled

====
